---- MODULE Spec2Model ----
(***************************************************************************)
(* SRTFormatter (src/syncsub/subtitle_formatter.py) as a state machine.    *)
(*                                                                         *)
(* One call of format_subtitles: the loop that splits every input Segment  *)
(* (_split_segment, _split_segment_by_chars), the opening of the output    *)
(* file, and the loop that re-wraps, pads and writes one cue per formatted *)
(* segment.                                                                *)
(*                                                                         *)
(* Times are Python floats in the source and IEEE 754 binary64 numbers     *)
(* here: every operation of the splitters and of the writer (duration / n, *)
(* processed_chars * time_per_char, + 0.1, //, round) is computed on the    *)
(* significand and rounded to nearest, ties to even, as the hardware does. *)
(* A text is the sequence of its characters, each a one-character string.  *)
(***************************************************************************)
EXTENDS Integers, Sequences, FiniteSets

\* ------------------------------------------------------------------------
\* Float arithmetic: the IEEE 754 binary64 numbers of Python's float, with
\* round-to-nearest, ties-to-even.  A float is 0 == <<0, 0, 0, 0>> or
\* <<s, h, l, e>>: sign s (1 or -1), a 53-bit significand h * 2^27 + l with
\* 2^25 <= h < 2^26 and 0 <= l < 2^27, and the exponent e of its last bit;
\* its value is s * (h * 2^27 + l) * 2^e.  Exact intermediate results are
\* numbers of four 27-bit limbs <<p0, p1, p2, p3>>, least significant first.
\* Infinities, NaN, subnormal numbers and the sign of zero are left out:
\* no time of a subtitle comes near them.
\* ------------------------------------------------------------------------

Abs(x) == IF x < 0 THEN -x ELSE x

Limb == 134217728   \* 2^27

FZero == <<0, 0, 0, 0>>

\* the number of bits of 0 <= x < 2^28
BitLen(x) ==
    IF x = 0 THEN 0
    ELSE IF x < 16384 THEN CHOOSE k \in 1..14 : 2^(k - 1) <= x /\ x < 2^k
    ELSE CHOOSE k \in 15..28 : 2^(k - 1) <= x /\ x < 2^k

BigBitLen(p) ==
    IF p[4] # 0 THEN 81 + BitLen(p[4])
    ELSE IF p[3] # 0 THEN 54 + BitLen(p[3])
    ELSE IF p[2] # 0 THEN 27 + BitLen(p[2])
    ELSE BitLen(p[1])

\* the 27 bits of p from bit position lo (0 is the last bit) upwards; p has
\* a limb lo \div 27 + 2
Window(p, lo) ==
    LET i == lo \div 27
        off == lo % 27
    IN  (p[i + 1] \div (2^off)) + ((p[i + 2] % (2^off)) * (2^(27 - off)))

\* are the n lowest bits of p all 0
LowBitsZero(p, n) ==
    /\ \A j \in 1..(n \div 27) : p[j] = 0
    /\ p[(n \div 27) + 1] % (2^(n % 27)) = 0

\* p + sg * q for sg = 1, and for sg = -1 when p >= q
BigAdd(p, q, sg) ==
    LET t1 == p[1] + (sg * q[1])
        t2 == p[2] + (sg * q[2]) + (t1 \div Limb)
        t3 == p[3] + (sg * q[3]) + (t2 \div Limb)
        t4 == p[4] + (sg * q[4]) + (t3 \div Limb)
    IN  <<t1 % Limb, t2 % Limb, t3 % Limb, t4>>

BigLt(p, q) ==
    IF p[4] # q[4] THEN p[4] < q[4]
    ELSE IF p[3] # q[3] THEN p[3] < q[3]
    ELSE IF p[2] # q[2] THEN p[2] < q[2]
    ELSE p[1] < q[1]

\* (h * 2^27 + l) * 2^d for 0 <= d <= 54
BigShiftLeft(h, l, d) ==
    LET b == d % 27
        c0 == (l % (2^(27 - b))) * (2^b)
        c1 == (l \div (2^(27 - b))) + ((h % (2^(27 - b))) * (2^b))
        c2 == h \div (2^(27 - b))
    IN  IF d < 27 THEN <<c0, c1, c2, 0>>
        ELSE IF d < 54 THEN <<0, c0, c1, c2>>
        ELSE <<0, 0, c0, c1>>

\* the float of the significand q = <<low limb, high limb, ...>>
FPack(s, q, e) == <<s, q[2], q[1], e>>

\* ties to even: the next float in magnitude when the first bit cut off
\* (half) is 1 and a later one is (rest) or the significand is odd
FRoundUp(s, h, l, e, half, rest) ==
    IF ~(half /\ (rest \/ l % 2 = 1)) THEN <<s, h, l, e>>
    ELSE IF l + 1 < Limb THEN <<s, h, l + 1, e>>
    ELSE IF h + 1 < 67108864 THEN <<s, h + 1, 0, e>>
    ELSE <<s, 33554432, 0, e + 1>>

\* the k >= 1 lowest bits of p are cut off; p has six limbs
FRoundCut(s, p, k, e) ==
    FRoundUp(s, Window(p, k + 27) % 67108864, Window(p, k), e,
             Window(p, k - 1) % 2 = 1, ~LowBitsZero(p, k - 1))

FRoundLen(s, p, e, len) ==
    IF len = 0 THEN FZero
    ELSE IF len <= 53 THEN FPack(s, BigShiftLeft(p[2], p[1], 53 - len), e + len - 53)
    ELSE FRoundCut(s, p \o <<0, 0>>, len - 53, e + len - 53)

\* the float nearest to s * p * 2^e, ties to the even significand
FRound(s, p, e) == FRoundLen(s, p, e, BigBitLen(p))

\* int to float
RInt(k) ==
    IF k = 0 THEN FZero
    ELSE FRound(IF k < 0 THEN -1 ELSE 1, <<Abs(k) % Limb, Abs(k) \div Limb, 0, 0>>, 0)

FNeg(x) == IF x[1] = 0 THEN x ELSE <<-x[1], x[2], x[3], x[4]>>

\* |x| < |y| for floats that are not 0
FMagLt(x, y) ==
    IF x[4] # y[4] THEN x[4] < y[4]
    ELSE IF x[2] # y[2] THEN x[2] < y[2]
    ELSE x[3] < y[3]

\* x < y and x <= y
RLt(x, y) ==
    IF x[1] # y[1] THEN x[1] < y[1]
    ELSE IF x[1] = 0 THEN FALSE
    ELSE FMagLt(IF x[1] = 1 THEN x ELSE y, IF x[1] = 1 THEN y ELSE x)

RLe(x, y) == x = y \/ RLt(x, y)

\* min(x, y) of Python: y when y < x, else x
RMin(x, y) == IF RLt(y, x) THEN y ELSE x

\* (sx * p + sy * q) * 2^e, the smaller magnitude taken off the larger
\* one when the signs differ
FAddMag(sx, sy, p, q, e) ==
    LET lt == BigLt(p, q)
    IN  FRound(IF sx # sy /\ lt THEN sy ELSE sx,
               BigAdd(IF lt THEN q ELSE p, IF lt THEN p ELSE q, sx * sy), e)

\* x + y for floats that are not 0, the exponent of x not below that of y
FAddOrdered(x, y) ==
    IF x[4] - y[4] >= 55 THEN x
    ELSE FAddMag(x[1], y[1], BigShiftLeft(x[2], x[3], x[4] - y[4]),
                 <<y[3], y[2], 0, 0>>, y[4])

\* x + y
RAdd(x, y) ==
    IF x[1] = 0 THEN y
    ELSE IF y[1] = 0 THEN x
    ELSE FAddOrdered(IF x[4] >= y[4] THEN x ELSE y, IF x[4] >= y[4] THEN y ELSE x)

\* x - y
RSub(x, y) == RAdd(x, FNeg(y))

\* the product of two numbers below 2^27, as <<high limb, low limb>>
Mul27(a, b) ==
    LET a1 == a \div 16384
        a0 == a % 16384
        b1 == b \div 16384
        b0 == b % 16384
        mid == a1 * b0 + a0 * b1
        low == a0 * b0 + ((mid % 8192) * 16384)
    IN  <<(a1 * b1 * 2) + (mid \div 8192) + (low \div Limb), low % Limb>>

\* x * y
RMul(x, y) ==
    IF x[1] = 0 \/ y[1] = 0 THEN FZero
    ELSE LET ll == Mul27(x[3], y[3])
             lh == Mul27(x[3], y[2])
             hl == Mul27(x[2], y[3])
             hh == Mul27(x[2], y[2])
             t1 == ll[1] + lh[2] + hl[2]
             t2 == lh[1] + hl[1] + hh[2] + (t1 \div Limb)
             t3 == hh[1] + (t2 \div Limb)
         IN  FRound(x[1] * y[1], <<ll[2], t1 % Limb, t2 % Limb, t3>>, x[4] + y[4])

\* the doubled remainder <<r2h, r2l>> gives the next bit of the quotient
\* <<q2h, q2l>>
DivStepBit(q2h, q2l, r2h, r2l, mh, ml) ==
    IF r2h > mh \/ (r2h = mh /\ r2l >= ml)
    THEN <<q2h, q2l + 1, r2h - mh - (IF r2l < ml THEN 1 ELSE 0),
           r2l - ml + (IF r2l < ml THEN Limb ELSE 0)>>
    ELSE <<q2h, q2l, r2h, r2l>>

\* one step of the long division of two significands; st is
\* <<quotient high, quotient low, remainder high, remainder low>> in limbs
DivStep(st, mh, ml) ==
    DivStepBit(((2 * st[1]) + ((2 * st[2]) \div Limb)) % (4 * Limb), (2 * st[2]) % Limb,
               (2 * st[3]) + ((2 * st[4]) \div Limb), (2 * st[4]) % Limb, mh, ml)

\* n steps of the long division, half by half; the state is looked at on
\* entry, so that a half is computed before the next one is entered
RECURSIVE DivBits(_, _, _, _)
DivBits(n, st, mh, ml) ==
    IF st[1] < 0 \/ n = 0 THEN st
    ELSE IF n = 1 THEN DivStep(st, mh, ml)
    ELSE DivBits(n - n \div 2, DivBits(n \div 2, st, mh, ml), mh, ml)

\* what x / y and x // y are when y is 0: Python raises ZeroDivisionError
ZeroDivisionError == <<"ZeroDivisionError">>

\* x / y: the first bit of the quotient of the significands and 54 more
\* are rounded; one more bit takes the remainder
RDiv(x, y) ==
    IF y[1] = 0 THEN ZeroDivisionError
    ELSE IF x[1] = 0 THEN FZero
    ELSE LET d == DivBits(54, DivStepBit(0, 0, x[2], x[3], y[2], y[3]), y[2], y[3])
             sticky == IF d[3] # 0 \/ d[4] # 0 THEN 1 ELSE 0
             q == (2 * d[1]) + ((2 * d[2]) \div Limb)
         IN  FRound(x[1] * y[1],
                    <<((2 * d[2]) % Limb) + sticky, q % Limb, q \div Limb, 0>>,
                    x[4] - y[4] - 55)

\* the float of the decimal literal n/d (n.0 / d.0 is rounded once, as the
\* literal is)
Rat(n, d) == RDiv(RInt(n), RInt(d))

\* the integer part of |x|
FIntPart(x) ==
    IF x[1] = 0 \/ x[4] <= -53 THEN 0
    ELSE IF x[4] >= 0 THEN (x[2] * Limb + x[3]) * (2^x[4])
    ELSE Window(<<x[3], x[2], 0, 0, 0, 0>>, -x[4])
         + ((Window(<<x[3], x[2], 0, 0, 0, 0>>, 27 - x[4]) % 67108864) * Limb)

\* int(x): towards 0
RTrunc(x) == x[1] * FIntPart(x)

\* round(x), an int: the nearest one, ties to the even one
RRound(x) ==
    IF x[1] = 0 \/ x[4] <= -55 THEN 0
    ELSE IF x[4] >= 0 THEN x[1] * FIntPart(x)
    ELSE LET p == <<x[3], x[2], 0, 0, 0, 0>>
             up == /\ Window(p, -x[4] - 1) % 2 = 1
                   /\ (~LowBitsZero(p, -x[4] - 1) \/ FIntPart(x) % 2 = 1)
         IN  x[1] * (FIntPart(x) + (IF up THEN 1 ELSE 0))

\* the floor of sx * sy * |x| / |y|, where the long division of |x| by |y|
\* left d: one below the quotient when that is negative and not exact
FFloorQuot(sx, sy, d) ==
    FRound(sx * sy,
           BigAdd(<<d[2], d[1], 0, 0>>,
                  <<IF sx # sy /\ (d[3] # 0 \/ d[4] # 0) THEN 1 ELSE 0, 0, 0, 0>>, 1),
           0)

\* x // y of Python floats, a float: the floor of the exact quotient, which
\* is what float_divmod of CPython returns for a quotient below 2^53
RFloorDiv(x, y) ==
    IF y[1] = 0 THEN ZeroDivisionError
    ELSE IF x[1] = 0 THEN FZero
    ELSE FFloorQuot(x[1], y[1],
                    IF FMagLt(x, y) THEN <<0, 0, x[2], x[3]>>
                    ELSE DivBits(x[4] - y[4],
                                 DivStepBit(0, 0, x[2], x[3], y[2], y[3]), y[2], y[3]))

\* the literal 0.1 the splitters and the writer pad with:
\* 7205759403792794 * 2^-56
MinPad == <<1, 53687091, 26843546, -56>>
\* the literal 1.5 of the duration trigger: 3 * 2^-1
Tolerance == <<1, 50331648, 0, -52>>

\* ------------------------------------------------------------------------
\* Strings
\* ------------------------------------------------------------------------

\* the whitespace str.split() cuts at (str.isspace), of the characters a
\* string literal can hold: \t \n \r \f and space, and written as the
\* characters themselves U+000B, U+001C to U+001F, U+0085, U+00A0 and U+1680;
\* the whitespace from U+2000 on cannot be written in a string
IsWhitespace(c) ==
    c \in {" ", "\n", "\t", "\r", "\f",
           "", "", "", "", "", "", " ", " "}

\* Python str.split(): the maximal runs of non-whitespace characters.  The
\* text is cut at a whitespace character (one at or after the middle when
\* there is one), which is in no word, and the words of the two parts are
\* the words of the text.
RECURSIVE StrSplit(_)
StrSplit(text) ==
    LET n == Len(text)
        h == (n + 1) \div 2
    IN  IF \A i \in 1..n : ~IsWhitespace(text[i])
        THEN IF text = <<>> THEN <<>> ELSE <<text>>
        ELSE LET i == IF \E j \in h..n : IsWhitespace(text[j])
                      THEN CHOOSE j \in h..n : IsWhitespace(text[j])
                      ELSE CHOOSE j \in 1..n : IsWhitespace(text[j])
             IN  StrSplit(SubSeq(text, 1, i - 1)) \o StrSplit(SubSeq(text, i + 1, n))

\* Python str.split('\n'): the pieces between newlines, empty ones kept,
\* cut at a newline in the same way
RECURSIVE SplitLines(_)
SplitLines(text) ==
    LET n == Len(text)
        h == (n + 1) \div 2
    IN  IF \A i \in 1..n : text[i] # "\n"
        THEN <<text>>
        ELSE LET i == IF \E j \in h..n : text[j] = "\n"
                      THEN CHOOSE j \in h..n : text[j] = "\n"
                      ELSE CHOOSE j \in 1..n : text[j] = "\n"
             IN  SplitLines(SubSeq(text, 1, i - 1)) \o SplitLines(SubSeq(text, i + 1, n))

\* Python sep.join(parts), the parts joined half by half
RECURSIVE StrJoin(_, _)
StrJoin(sep, parts) ==
    IF parts = <<>> THEN <<>>
    ELSE IF Len(parts) = 1 THEN parts[1]
    ELSE LET h == Len(parts) \div 2
         IN  StrJoin(sep, SubSeq(parts, 1, h)) \o sep
             \o StrJoin(sep, SubSeq(parts, h + 1, Len(parts)))

\* Python list slices words[a:b] (0-based, b exclusive) and lines[:n]; a
\* negative n counts from the end of the list
Slice(s, a, b) == SubSeq(s, a + 1, b)
Take(s, n) ==
    IF n >= 0 THEN SubSeq(s, 1, IF n < Len(s) THEN n ELSE Len(s))
    ELSE SubSeq(s, 1, Len(s) + n)

Min(a, b) == IF a <= b THEN a ELSE b

\* ------------------------------------------------------------------------
\* Segment (models.py) and the splitters
\* ------------------------------------------------------------------------

Segment(start, end, text) == [start_time |-> start, end_time |-> end, text |-> text]

\* A splitter returns a list of pieces; `same` marks the piece that IS the
\* Segment object it was given (return [segment]) and not a new Segment.
Piece(start, end, text, same) ==
    [start_time |-> start, end_time |-> end, text |-> text, same |-> same]

\* "Prevent zero or negative duration" / "Avoid zero duration subs": a
\* sub-span that does not end after its start ends 0.1 s after it
SubEndPad(sub_start, sub_end) ==
    IF RLe(sub_end, sub_start) THEN RAdd(sub_start, MinPad) ELSE sub_end

\* SubEndTime without the character count: one time_per_char per sub-span
SubEndTimeUnscaled(current_start_time, processed_chars, time_per_char, seg_end) ==
    SubEndPad(current_start_time,
              RMin(RAdd(current_start_time, time_per_char), seg_end))

\* end of a sub-span flushed inside the word loop: proportional to the
\* processed characters, clamped to the segment's end, padded when empty
SubEndTime(current_start_time, processed_chars, time_per_char, seg_end) ==
    SubEndPad(current_start_time,
              RMin(RAdd(current_start_time, RMul(RInt(processed_chars), time_per_char)),
                   seg_end))

\* the empty accumulator of _split_segment_by_chars
CharState(start) ==
    [split_segments |-> <<>>, current_line |-> <<>>, processed_chars |-> 0,
     current_start_time |-> start, lines_in_block |-> <<>>]

\* split_segments.append(Segment(...)) and the resets after it: the block
\* of `lines` ends at sub_end_time, the next one starts there
CharAppend(st, lines, sub_end_time, current_line) ==
    [split_segments |->
        Append(st.split_segments,
               Piece(st.current_start_time, sub_end_time, StrJoin(<<"\n">>, lines), FALSE)),
     current_line |-> current_line,
     processed_chars |-> 0,
     current_start_time |-> sub_end_time,
     lines_in_block |-> <<>>]

\* "Finish the current segment block" when there is a current line; the
\* word starts the new line
CharFinish(st, word, time_per_char, seg_end) ==
    IF st.current_line # <<>>
    THEN CharAppend(st, Append(st.lines_in_block, st.current_line),
                    SubEndTime(st.current_start_time, st.processed_chars,
                               time_per_char, seg_end),
                    word)
    ELSE [st EXCEPT !.current_line = word]

\* the new current_line of the state a after "Finish the current segment
\* block" is added to the block; a long one closes the block when it is
\* full or the word is the last
CharPlace(a, is_last, max_chars, max_lines, time_per_char, seg_end) ==
    LET lines == Append(a.lines_in_block, a.current_line)
        block_chars == Len(StrJoin(<<"\n">>, lines)) - (Len(lines) - 1)
    IN  IF Len(a.current_line) > max_chars \div max_lines
        THEN IF Len(lines) >= max_lines \/ is_last
             THEN CharAppend(a, lines,
                             SubEndTime(a.current_start_time,
                                        a.processed_chars + block_chars,
                                        time_per_char, seg_end),
                             <<>>)
             ELSE [a EXCEPT !.lines_in_block = lines]
        ELSE [a EXCEPT !.lines_in_block = lines,
                       !.processed_chars = a.processed_chars + Len(a.current_line) + 1,
                       !.current_line = <<>>]

\* one iteration of the word loop of _split_segment_by_chars
CharStep(st, word, is_last, max_chars, max_lines, time_per_char, seg_end) ==
    LET potential_line == IF st.current_line # <<>>
                          THEN st.current_line \o <<" ">> \o word
                          ELSE word
    IN
    IF Len(potential_line) > max_chars
    THEN CharPlace(CharFinish(st, word, time_per_char, seg_end), is_last,
                   max_chars, max_lines, time_per_char, seg_end)
    ELSE
        IF Len(potential_line) > max_chars \div max_lines
           /\ Len(st.lines_in_block) < max_lines - 1
        THEN [st EXCEPT !.lines_in_block = Append(st.lines_in_block, potential_line),
                        !.processed_chars = st.processed_chars + Len(potential_line) + 1,
                        !.current_line = <<>>]
        ELSE [st EXCEPT !.current_line = potential_line]

\* the word loop over words[i..j], first half then second half.  The state
\* is looked at on entry (processed_chars is never negative), so that the
\* state a half starts from is evaluated before the half is entered and the
\* nesting of the evaluation stays logarithmic in the number of words.
RECURSIVE CharLoop(_, _, _, _, _, _, _, _)
CharLoop(st, words, i, j, max_chars, max_lines, time_per_char, seg_end) ==
    IF st.processed_chars < 0 \/ i > j THEN st
    ELSE IF i = j
    THEN CharStep(st, words[i], i = Len(words), max_chars, max_lines, time_per_char, seg_end)
    ELSE CharLoop(CharLoop(st, words, i, (i + j) \div 2,
                           max_chars, max_lines, time_per_char, seg_end),
                  words, ((i + j) \div 2) + 1, j, max_chars, max_lines, time_per_char, seg_end)

\* the remaining text becomes the last block, ending at the segment's end
CharFlush(st, seg_end) ==
    LET lines == IF st.current_line # <<>>
                 THEN Append(st.lines_in_block, st.current_line)
                 ELSE st.lines_in_block
    IN  IF lines # <<>>
        THEN Append(st.split_segments,
                    Piece(st.current_start_time, seg_end, StrJoin(<<"\n">>, lines), FALSE))
        ELSE st.split_segments

\* KeepPiece that also drops the pieces of the minimum duration 0.1 s
KeepPieceAboveMinPad(p) == p.text # <<>> /\ RLt(RAdd(p.start_time, MinPad), p.end_time)

\* the closing filter: pieces with text and with end_time > start_time
KeepPiece(p) == p.text # <<>> /\ RLt(p.start_time, p.end_time)

split_segment_by_chars(segment, max_chars, max_lines) ==
    LET text == segment.text
        words == StrSplit(text)
    IN
    IF Len(text) <= max_chars \/ words = <<>>
    THEN <<Piece(segment.start_time, segment.end_time, text, TRUE)>>
    ELSE
        LET duration == RSub(segment.end_time, segment.start_time)
            time_per_char == RDiv(duration, RInt(Len(text)))
            st == CharLoop(CharState(segment.start_time), words, 1, Len(words),
                           max_chars, max_lines, time_per_char, segment.end_time)
        IN  SelectSeq(CharFlush(st, segment.end_time), KeepPiece)

\* the empty accumulator of the chunk loop of _split_segment
DurState(start) == [split_segments |-> <<>>, current_time |-> start, start_word_idx |-> 0]

\* split_segments.append(Segment(...)) of the chunk loop, and the two
\* assignments after it
DurAppend(st, end_word_idx, sub_text, sub_end) ==
    [split_segments |-> Append(st.split_segments,
                               Segment(st.current_time, sub_end, sub_text)),
     current_time |-> sub_end,
     start_word_idx |-> end_word_idx]

\* the chunk of the words up to end_word_idx: skipped when it has no text,
\* else it ends split_duration later, at the segment's end at the latest
DurChunk(st, end_word_idx, words, split_duration, seg_end) ==
    LET sub_text == StrJoin(<<" ">>, Slice(words, st.start_word_idx, end_word_idx))
    IN  IF sub_text = <<>> THEN st
        ELSE DurAppend(st, end_word_idx, sub_text,
                       SubEndPad(st.current_time,
                                 RMin(RAdd(st.current_time, split_duration), seg_end)))

\* DurStep in which the last chunk takes words_per_split words like the others
DurStepNoRemainder(st, i, num_splits, words, words_per_split, split_duration, seg_end) ==
    DurChunk(st, Min(st.start_word_idx + words_per_split, Len(words)),
             words, split_duration, seg_end)

\* one iteration of the chunk loop of _split_segment: chunk i (0-based) of
\* num_splits
DurStep(st, i, num_splits, words, words_per_split, split_duration, seg_end) ==
    DurChunk(st,
             IF i < num_splits - 1
             THEN Min(st.start_word_idx + words_per_split, Len(words))
             ELSE Len(words),
             words, split_duration, seg_end)

\* the chunk loop over the chunks i..j, first half then second half.  The
\* state is looked at on entry (start_word_idx is never negative), so that
\* a half is computed before the next one is entered.
RECURSIVE DurLoop(_, _, _, _, _, _, _, _)
DurLoop(st, i, j, num_splits, words, words_per_split, split_duration, seg_end) ==
    IF st.start_word_idx < 0 \/ i > j THEN st
    ELSE IF i = j
    THEN DurStep(st, i, num_splits, words, words_per_split, split_duration, seg_end)
    ELSE DurLoop(DurLoop(st, i, (i + j) \div 2, num_splits, words, words_per_split,
                         split_duration, seg_end),
                 ((i + j) \div 2) + 1, j, num_splits, words, words_per_split,
                 split_duration, seg_end)

\* num_splits_duration chunks of duration / num_splits_duration each
DurChunksInto(segment, duration, num_splits_duration) ==
    LET words == StrSplit(segment.text)
        words_per_split == IF num_splits_duration > 0
                           THEN Len(words) \div num_splits_duration
                           ELSE Len(words)
    IN  DurLoop(DurState(segment.start_time), 0, num_splits_duration - 1,
                num_splits_duration, words, words_per_split,
                RDiv(duration, RInt(num_splits_duration)), segment.end_time).split_segments

\* DurationChunks with one chunk too few: floor(duration / max_duration)
DurationChunksOneLess(segment, max_duration) ==
    LET duration == RSub(segment.end_time, segment.start_time)
    IN  DurChunksInto(segment, duration, RTrunc(RFloorDiv(duration, max_duration)))

\* the chunks of the duration split, before they are split by characters:
\* int(duration // max_duration) + 1 of them
DurationChunks(segment, max_duration) ==
    LET duration == RSub(segment.end_time, segment.start_time)
    IN  DurChunksInto(segment, duration, RTrunc(RFloorDiv(duration, max_duration)) + 1)

\* a chunk is a new Segment: whatever the character split returns for it is
\* no object of the caller's
RECURSIVE SplitChunksRange(_, _, _, _, _)
SplitChunksRange(chunks, i, j, max_chars, max_lines) ==
    IF i > j THEN <<>>
    ELSE IF i = j
    THEN LET ps == split_segment_by_chars(chunks[i], max_chars, max_lines)
         IN  [k \in 1..Len(ps) |-> [ps[k] EXCEPT !.same = FALSE]]
    ELSE SplitChunksRange(chunks, i, (i + j) \div 2, max_chars, max_lines)
         \o SplitChunksRange(chunks, ((i + j) \div 2) + 1, j, max_chars, max_lines)

SplitChunks(chunks, max_chars, max_lines) ==
    SplitChunksRange(chunks, 1, Len(chunks), max_chars, max_lines)

\* the duration trigger without the tolerance: at max_duration already
ExceedsDurationNoTolerance(segment, max_duration) ==
    RLe(max_duration, RSub(segment.end_time, segment.start_time))

\* the duration trigger: significantly longer than max_duration
ExceedsDuration(segment, max_duration) ==
    RLt(RMul(max_duration, Tolerance), RSub(segment.end_time, segment.start_time))

split_segment(segment, max_chars, max_duration, max_lines) ==
    LET chunks == IF ExceedsDuration(segment, max_duration)
                  THEN DurationChunks(segment, max_duration)
                  ELSE <<>>
    IN  IF chunks # <<>>
        THEN SplitChunks(chunks, max_chars, max_lines)
        ELSE IF Len(segment.text) > max_chars
        THEN split_segment_by_chars(segment, max_chars, max_lines)
        ELSE <<Piece(segment.start_time, segment.end_time, segment.text, TRUE)>>

\* ---- the arithmetic of the splitters that can raise ZeroDivisionError ----

\* len(text) // max_chars (line 132) raises when max_chars is 0;
\* max_chars // max_lines (lines 169 and 197) is evaluated for every word of
\* the loop, so it raises for the first word when max_lines is 0
split_segment_by_chars_raises(segment, max_chars, max_lines) ==
    /\ Len(segment.text) > max_chars
    /\ StrSplit(segment.text) # <<>>
    /\ (max_chars = 0 \/ max_lines = 0)

\* duration // max_duration (line 74) raises when max_duration is 0, and
\* duration / num_splits_duration (line 75) when the number of chunks is 0;
\* after that the character split is called for the chunks or the segment
split_segment_raises(segment, max_chars, max_duration, max_lines) ==
    LET duration == RSub(segment.end_time, segment.start_time)
    IN  IF ExceedsDuration(segment, max_duration)
        THEN IF max_duration = FZero THEN TRUE
             ELSE IF RTrunc(RFloorDiv(duration, max_duration)) + 1 = 0 THEN TRUE
             ELSE LET chunks == DurationChunks(segment, max_duration)
                  IN  IF chunks # <<>>
                      THEN \E k \in 1..Len(chunks) :
                              split_segment_by_chars_raises(chunks[k], max_chars, max_lines)
                      ELSE split_segment_by_chars_raises(segment, max_chars, max_lines)
        ELSE split_segment_by_chars_raises(segment, max_chars, max_lines)

\* ------------------------------------------------------------------------
\* The writer's per-cue steps
\* ------------------------------------------------------------------------

\* the word wrap of one line that is longer than max_chars_per_segment:
\* returns the finished lines followed by the last, unfinished one
RECURSIVE WrapWords(_, _, _, _, _)
WrapWords(words, k, wrapped_line, done, max_chars_per_segment) ==
    IF k > Len(words) THEN Append(done, wrapped_line)
    ELSE IF Len(wrapped_line) = 0
         THEN WrapWords(words, k + 1, wrapped_line \o words[k], done,
                        max_chars_per_segment)
         ELSE IF Len(wrapped_line) + Len(words[k]) + 1 <= max_chars_per_segment
         THEN WrapWords(words, k + 1, wrapped_line \o <<" ">> \o words[k], done,
                        max_chars_per_segment)
         ELSE WrapWords(words, k + 1, words[k], Append(done, wrapped_line),
                        max_chars_per_segment)

WrapLine(line, max_chars_per_segment) ==
    IF Len(line) > max_chars_per_segment
    THEN WrapWords(StrSplit(line), 1, <<>>, <<>>, max_chars_per_segment)
    ELSE <<line>>

RECURSIVE WrapLines(_, _)
WrapLines(lines, max_chars_per_segment) ==
    IF lines = <<>> THEN <<>>
    ELSE WrapLine(Head(lines), max_chars_per_segment)
         \o WrapLines(Tail(lines), max_chars_per_segment)

\* FinalLines without the slice: every wrapped line is written
FinalLinesUncut(text, max_chars_per_segment, max_lines_per_block) ==
    WrapLines(SplitLines(text), max_chars_per_segment)

\* final_lines[:max_lines_per_block]
FinalLines(text, max_chars_per_segment, max_lines_per_block) ==
    Take(WrapLines(SplitLines(text), max_chars_per_segment), max_lines_per_block)

\* format_time_srt in which the seconds are taken before the minutes are
\* taken off: milliseconds %= 60000 is left out
format_time_srt_unreduced(seconds) ==
    LET clamped == IF RLt(seconds, RInt(0)) THEN RInt(0) ELSE seconds
        milliseconds == RRound(RMul(clamped, RInt(1000)))
    IN  [hrs  |-> milliseconds \div 3600000,
         mins |-> (milliseconds % 3600000) \div 60000,
         secs |-> (milliseconds % 3600000) \div 1000,
         ms   |-> milliseconds % 1000]

\* format_time_srt (utils.py): the fields of HH:MM:SS,mmm
format_time_srt(seconds) ==
    LET clamped == IF RLt(seconds, RInt(0)) THEN RInt(0) ELSE seconds
        milliseconds == RRound(RMul(clamped, RInt(1000)))
    IN  [hrs  |-> milliseconds \div 3600000,
         mins |-> (milliseconds % 3600000) \div 60000,
         secs |-> (milliseconds % 60000) \div 1000,
         ms   |-> milliseconds % 1000]

\* PaddedEnd without the adjustment: the end time is written as it came
PaddedEndNever(start_time, end_time) == end_time

\* "Ensure end time is strictly after start time"
PaddedEnd(start_time, end_time) ==
    IF RLe(end_time, start_time) THEN RAdd(start_time, MinPad) ELSE end_time

\* ------------------------------------------------------------------------
\* One call of format_subtitles
\* ------------------------------------------------------------------------

VARIABLES
    cfg,                 \* max_chars_per_segment, max_duration_seconds, max_lines_per_block
    input,               \* the segments as they were when the call was made
    segments,            \* transcription_result.segments: the caller's Segment objects
    pc,                  \* "split", "write", "done" or "failed"
    next_segment,        \* position of the loop over transcription_result.segments
    formatted_segments,  \* the list the splitting loop builds
    next_cue,            \* position of the loop over formatted_segments
    subtitle_index,      \* the index the next written block gets
    file,                \* the file at output_path: "untouched", "open" or "closed"
    out,                 \* the blocks handed to f.write; once closed, what the file holds
    raised,              \* the exception that left the call, "none" when none did
    call,                \* the caller: which call of format_subtitles this is (1 or 2)
    first_out,           \* the caller: the blocks the first call wrote, <<>> during it
    gpc,                 \* SubtitleGenerator.generate: the step it is at, "none" outside it
    audio,               \* generate: the file at extracted_audio_path: "none" (no path),
                         \* "extracted", "missing" (the file is gone) or "removed"
    removals,            \* generate: how often os.remove was called for the audio file
    pending,             \* generate: the exception that leaves it, "none" when none does
    transcribed,         \* generate: the segments as the transcriber returned them
    next_translation,    \* generate: position of the translation loop
    failed_translations, \* generate: the segments whose translation raised
    malayalam_segments,  \* generate: the list the translation loop builds
    en_file,             \* generate: the file at en_subtitle_path, "absent" or "exists"
    ml_file,             \* generate: the file at ml_subtitle_path, "absent" or "exists"
    bpc,                 \* run_batch_processing: the step it is at, "none" outside it
    listing,             \* batch: the entries of the input directory, as os.listdir gives them
    videos,              \* batch: sorted_videos_with_size
    video_idx,           \* batch: position of the loop over the videos
    attempted,           \* batch: the videos generate was called for, in order
    files_processed,     \* batch: the counter of the videos that succeeded
    files_failed,        \* batch: the counter of the videos that failed
    subs,                \* batch: per attempted video, where its .en and .ml files are
    exit_status,         \* batch: the status of sys.exit, "none" while running
    uncaught             \* batch: the exception that ends the process, "none" when none does

\* the state of SubtitleGenerator.generate
generate_vars == <<gpc, audio, removals, pending, transcribed, next_translation,
                   failed_translations, malayalam_segments, en_file, ml_file>>

\* the state of run_batch_processing
batch_vars == <<bpc, listing, videos, video_idx, attempted, files_processed,
                files_failed, subs, exit_status, uncaught>>

\* the state of the caller
caller_vars == <<call, first_out, generate_vars, batch_vars>>

vars == <<cfg, input, segments, pc, next_segment, formatted_segments, next_cue,
          subtitle_index, file, out, raised, caller_vars>>

\* ---- the inputs ----

MaxWords == 3
MaxChars == 3
MaxLines == 2
MaxSegs == 2

Words == {<<"a">>, <<"b", "b">>, <<"a", "b", "c">>}

\* stripped texts of up to MaxWords words, and one with a run of inner whitespace
Texts ==
    {StrJoin(<<" ">>, ws) : ws \in UNION {[1..k -> Words] : k \in 0..MaxWords}}
    \cup {<<"a", " ", " ", "b", "b">>}

Starts == {RInt(0), RInt(2)}
Durations == {RInt(-1), RInt(0), Rat(1, 20), RInt(1), Rat(7, 4), RInt(3), RInt(4)}
MaxDurations == {RInt(1), RInt(2)}

Configs ==
    [max_chars_per_segment : 1..MaxChars,
     max_duration_seconds : MaxDurations,
     max_lines_per_block : 1..MaxLines]

\* every single Segment at times >= 0, whatever its duration
OneSegment ==
    {seg \in {Segment(s, RAdd(s, d), t) : s \in Starts, d \in Durations, t \in Texts} :
        RLe(RInt(0), seg.end_time)}

\* transcripts in temporal order: each segment starts where the one before
\* it ends and lasts 0.05 s or 1 s
SetWords == {<<"a">>, <<"b", "b">>}
SetTexts == {StrJoin(<<" ">>, ws) : ws \in UNION {[1..k -> SetWords] : k \in 0..2}}
SetDurations == {Rat(1, 20), RInt(1)}

RECURSIVE Chain(_, _, _)
Chain(start, durs, texts) ==
    IF durs = <<>> THEN <<>>
    ELSE <<Segment(start, RAdd(start, Head(durs)), Head(texts))>>
         \o Chain(RAdd(start, Head(durs)), Tail(durs), Tail(texts))

Transcripts ==
    UNION {{Chain(RInt(0), durs, texts) :
                durs \in [1..n -> SetDurations], texts \in [1..n -> SetTexts]} :
           n \in 2..MaxSegs}

SetConfigs ==
    [max_chars_per_segment : 1..MaxChars,
     max_duration_seconds : {RInt(1)},
     max_lines_per_block : 1..MaxLines]

\* format_subtitles is called directly, not by SubtitleGenerator.generate
NoGenerate ==
    /\ gpc = "none"
    /\ audio = "none"
    /\ removals = 0
    /\ pending = "none"
    /\ transcribed = <<>>
    /\ next_translation = 1
    /\ failed_translations = {}
    /\ malayalam_segments = <<>>
    /\ en_file = "absent"
    /\ ml_file = "absent"

\* generate is called directly, not by run_batch_processing
NoBatch ==
    /\ bpc = "none"
    /\ listing = <<>>
    /\ videos = <<>>
    /\ video_idx = 1
    /\ attempted = <<>>
    /\ files_processed = 0
    /\ files_failed = 0
    /\ subs = <<>>
    /\ exit_status = "none"
    /\ uncaught = "none"

Start(c, segs) ==
    /\ cfg = c
    /\ input = segs
    /\ segments = segs
    /\ pc = "split"
    /\ next_segment = 1
    /\ formatted_segments = <<>>
    /\ next_cue = 1
    /\ subtitle_index = 1
    /\ file = "untouched"
    /\ out = <<>>
    /\ raised = "none"
    /\ call = 1
    /\ first_out = <<>>
    /\ NoGenerate
    /\ NoBatch

\* every single segment of OneSegment, every transcript of Transcripts, and
\* a token of 13.5 ms, a duration that the division by the number of its
\* characters and the multiplication back do not give again
Init ==
    \/ \E c \in Configs, seg \in OneSegment : Start(c, <<seg>>)
    \/ \E c \in SetConfigs, segs \in Transcripts : Start(c, segs)
    \/ \E c \in Configs : Start(c, <<Segment(RInt(0), Rat(27, 2000), <<"a", "b", "c">>)>>)

\* ---- the splitting loop ----

\* a formatted segment: src is the input segment it was derived from, same
\* says that it is that very object
Formatted(src, p) ==
    [src |-> src, same |-> p.same,
     start_time |-> p.start_time, end_time |-> p.end_time, text |-> p.text]

\* "Rough total chars for block"
max_chars_combined == cfg.max_chars_per_segment * cfg.max_lines_per_block

SplitPieces(segment) ==
    split_segment(segment, max_chars_combined, cfg.max_duration_seconds,
                  cfg.max_lines_per_block)

\* the arithmetic of _split_segment raises for the segment
SplitRaisesFor(segment) ==
    split_segment_raises(segment, max_chars_combined, cfg.max_duration_seconds,
                         cfg.max_lines_per_block)

SplitNext ==
    /\ pc = "split"
    /\ next_segment <= Len(segments)
    /\ ~SplitRaisesFor(segments[next_segment])
    /\ LET ps == SplitPieces(segments[next_segment])
       IN  formatted_segments' =
               formatted_segments \o [k \in 1..Len(ps) |-> Formatted(next_segment, ps[k])]
    /\ next_segment' = next_segment + 1
    /\ UNCHANGED <<cfg, input, segments, pc, next_cue, subtitle_index, file, out, raised>>
    /\ UNCHANGED caller_vars

\* SplitRaises as if the splitting loop ran inside the with statement: the
\* file was created or truncated, and is closed when the exception leaves
SplitRaisesFileOpened ==
    /\ pc = "split"
    /\ next_segment <= Len(segments)
    /\ SplitRaisesFor(segments[next_segment])
    /\ pc' = "failed"
    /\ raised' = "ZeroDivisionError"
    /\ file' = "closed"
    /\ UNCHANGED <<cfg, input, segments, next_segment, formatted_segments, next_cue,
                   subtitle_index, out>>
    /\ UNCHANGED caller_vars

\* the splitting loop is outside the try statement: a ZeroDivisionError of
\* the splitting arithmetic leaves the call as it is, before the file is opened
SplitRaises ==
    /\ pc = "split"
    /\ next_segment <= Len(segments)
    /\ SplitRaisesFor(segments[next_segment])
    /\ pc' = "failed"
    /\ raised' = "ZeroDivisionError"
    /\ UNCHANGED <<cfg, input, segments, next_segment, formatted_segments, next_cue,
                   subtitle_index, file, out>>
    /\ UNCHANGED caller_vars

\* ---- the file ----

OpenOutput ==
    /\ pc = "split"
    /\ next_segment > Len(segments)
    /\ file' = "open"
    /\ out' = <<>>
    /\ pc' = "write"
    /\ UNCHANGED <<cfg, input, segments, next_segment, formatted_segments, next_cue,
                   subtitle_index, raised>>
    /\ UNCHANGED caller_vars

\* open() raises IOError: FormattingError leaves the call
OpenFails ==
    /\ pc = "split"
    /\ next_segment > Len(segments)
    /\ pc' = "failed"
    /\ raised' = "FormattingError"
    /\ UNCHANGED <<cfg, input, segments, next_segment, formatted_segments, next_cue,
                   subtitle_index, file, out>>
    /\ UNCHANGED caller_vars

\* ---- the writing loop ----

\* the segment object after "Ensure end time is strictly after start time"
Padded(seg) == [seg EXCEPT !.end_time = PaddedEnd(seg.start_time, seg.end_time)]

\* the caller's objects after the assignment to segment.end_time (line 293):
\* the segments of the TranscriptionResult handed to the call, which in
\* generate's second call are the objects of malayalam_segments
Assigned(seg) ==
    IF seg.same
    THEN [segments EXCEPT ![seg.src].end_time = PaddedEnd(seg.start_time, seg.end_time)]
    ELSE segments

\* the block written for a formatted segment: the index line, the two
\* rendered timestamps (with the times they render) and the text lines
Block(index, seg) ==
    [index |-> index,
     start_time |-> seg.start_time,
     end_time |-> PaddedEnd(seg.start_time, seg.end_time),
     start |-> format_time_srt(seg.start_time),
     end |-> format_time_srt(PaddedEnd(seg.start_time, seg.end_time)),
     text |-> StrJoin(<<"\n">>, FinalLines(seg.text, cfg.max_chars_per_segment,
                                          cfg.max_lines_per_block))]

\* len(str(n)) of a natural number
RECURSIVE Digits(_)
Digits(n) == IF n < 10 THEN 1 ELSE 1 + Digits(n \div 10)

\* the number of characters handed over for a block after each of the three
\* f.write calls: f"{subtitle_index}\n", f"{start_time_str} --> {end_time_str}\n"
\* and f"{final_text}\n\n", a time string being f"{hrs:02d}" and ":MM:SS,mmm"
WriteEnds(b) ==
    LET TimeChars(t) == (IF t.hrs < 10 THEN 2 ELSE Digits(t.hrs)) + 10
        index_line == Digits(b.index) + 1
        time_line == TimeChars(b.start) + 5 + TimeChars(b.end) + 1
    IN  <<index_line, index_line + time_line, index_line + time_line + Len(b.text) + 2>>

\* the number of characters of a whole block
BlockChars(b) == WriteEnds(b)[3]

\* a block of which only the first chars characters reached the file
Torn(b, chars) ==
    [index |-> b.index, start_time |-> b.start_time, end_time |-> b.end_time,
     start |-> b.start, end |-> b.end, text |-> b.text, chars |-> chars]

\* what the file can hold when a write or the flush of the buffered text
\* failed: a beginning of the text handed to f.write that is not all of it,
\* n whole blocks and the first c characters of the next one (a written
\* text holds one byte per character when its words are ASCII)
FileAfterFailure(stream) ==
    UNION {{SubSeq(stream, 1, n)
            \o (IF c = 0 THEN <<>> ELSE <<Torn(stream[n + 1], c)>>) :
            c \in 0..(BlockChars(stream[n + 1]) - 1)} :
           n \in 0..(Len(stream) - 1)}

\* WriteCue without subtitle_index += 1
WriteCueSameIndex ==
    /\ pc = "write"
    /\ next_cue <= Len(formatted_segments)
    /\ LET seg == formatted_segments[next_cue]
       IN  /\ formatted_segments' = [formatted_segments EXCEPT ![next_cue] = Padded(seg)]
           /\ segments' = Assigned(seg)
           /\ out' = Append(out, Block(subtitle_index, seg))
    /\ subtitle_index' = subtitle_index
    /\ next_cue' = next_cue + 1
    /\ UNCHANGED <<cfg, input, pc, next_segment, file, raised>>
    /\ malayalam_segments' =
           IF gpc = "format_ml" THEN Assigned(formatted_segments[next_cue])
           ELSE malayalam_segments
    /\ UNCHANGED <<call, first_out, gpc, audio, removals, pending, transcribed,
                   next_translation, failed_translations, en_file, ml_file, batch_vars>>

WriteCue ==
    /\ pc = "write"
    /\ next_cue <= Len(formatted_segments)
    /\ LET seg == formatted_segments[next_cue]
       IN  /\ formatted_segments' = [formatted_segments EXCEPT ![next_cue] = Padded(seg)]
           /\ segments' = Assigned(seg)
           /\ out' = Append(out, Block(subtitle_index, seg))
    /\ subtitle_index' = subtitle_index + 1
    /\ next_cue' = next_cue + 1
    /\ UNCHANGED <<cfg, input, pc, next_segment, file, raised>>
    /\ malayalam_segments' =
           IF gpc = "format_ml" THEN Assigned(formatted_segments[next_cue])
           ELSE malayalam_segments
    /\ UNCHANGED <<call, first_out, gpc, audio, removals, pending, transcribed,
                   next_translation, failed_translations, en_file, ml_file, batch_vars>>

\* a write raises (IOError when the buffered text cannot be written, another
\* exception when the text cannot be encoded): the end time was already
\* adjusted, subtitle_index was not incremented, the with statement closes the
\* file, which holds a beginning of the text handed over so far, possibly
\* with a part of this block
WriteFails ==
    /\ pc = "write"
    /\ next_cue <= Len(formatted_segments)
    /\ LET seg == formatted_segments[next_cue]
       IN  /\ formatted_segments' = [formatted_segments EXCEPT ![next_cue] = Padded(seg)]
           /\ segments' = Assigned(seg)
           /\ out' \in FileAfterFailure(Append(out, Block(subtitle_index, seg)))
    /\ file' = "closed"
    /\ pc' = "failed"
    /\ raised' = "FormattingError"
    /\ UNCHANGED <<cfg, input, next_segment, next_cue, subtitle_index>>
    /\ malayalam_segments' =
           IF gpc = "format_ml" THEN Assigned(formatted_segments[next_cue])
           ELSE malayalam_segments
    /\ UNCHANGED <<call, first_out, gpc, audio, removals, pending, transcribed,
                   next_translation, failed_translations, en_file, ml_file, batch_vars>>

\* the with statement closes the file and the buffered text is flushed
CloseOutput ==
    /\ pc = "write"
    /\ next_cue > Len(formatted_segments)
    /\ file' = "closed"
    /\ pc' = "done"
    /\ UNCHANGED <<cfg, input, segments, next_segment, formatted_segments, next_cue,
                   subtitle_index, out, raised>>
    /\ UNCHANGED caller_vars

\* the flush at the exit of the with statement raises OSError after every
\* cue was handed to f.write: the file is closed with a beginning of the
\* text, and line 304 raises FormattingError
CloseFails ==
    /\ pc = "write"
    /\ next_cue > Len(formatted_segments)
    /\ out' \in FileAfterFailure(out)
    /\ file' = "closed"
    /\ pc' = "failed"
    /\ raised' = "FormattingError"
    /\ UNCHANGED <<cfg, input, segments, next_segment, formatted_segments, next_cue,
                   subtitle_index>>
    /\ UNCHANGED caller_vars

Next ==
    \/ SplitNext
    \/ OpenOutput
    \/ OpenFails
    \/ WriteCue
    \/ WriteFails
    \/ CloseOutput
    \/ CloseFails

\* With the limits of Configs and SetConfigs (all of them positive) the
\* splitting arithmetic cannot raise, and Next is every step of the call.
Spec == Init /\ [][Next]_vars

\* ---- the call with limits that may be 0 or negative ----

AnyConfigs ==
    [max_chars_per_segment : 0..MaxChars,
     max_duration_seconds : {RInt(-1), RInt(0), RInt(1)},
     max_lines_per_block : 0..MaxLines]

\* the transcripts with limits of which only the character and line limits
\* may be 0: a segment without text is split, one with text raises
AnySetConfigs == {c \in AnyConfigs : c.max_duration_seconds = RInt(1)}

InitAnyConfig ==
    \/ \E c \in AnyConfigs, seg \in OneSegment : Start(c, <<seg>>)
    \/ \E c \in AnySetConfigs, segs \in Transcripts : Start(c, segs)

NextAnyConfig ==
    \/ SplitNext
    \/ SplitRaises
    \/ OpenOutput
    \/ OpenFails
    \/ WriteCue
    \/ WriteFails
    \/ CloseOutput
    \/ CloseFails

SpecAnyConfig == InitAnyConfig /\ [][NextAnyConfig]_vars

\* ------------------------------------------------------------------------
\* Properties
\* ------------------------------------------------------------------------

\* the blocks written whole, and those written for input segment i
Cues == {k \in 1..Len(out) : "chars" \notin DOMAIN out[k]}
CuesOf(i) == {k \in Cues : formatted_segments[k].src = i}
CueLines(k) == SplitLines(out[k].text)
CueDuration(k) == RSub(out[k].end_time, out[k].start_time)

Duration(seg) == RSub(seg.end_time, seg.start_time)
HasWords(seg) == StrSplit(seg.text) # <<>>
Positive(seg) == RLt(seg.start_time, seg.end_time)

RECURSIVE Flatten(_)
Flatten(ss) == IF ss = <<>> THEN <<>> ELSE Head(ss) \o Flatten(Tail(ss))

\* the words of blocks a..b that belong to input segment i, in emission order
RECURSIVE WordsWritten(_, _, _)
WordsWritten(i, a, b) ==
    IF a > b THEN <<>>
    ELSE (IF formatted_segments[a].src = i THEN StrSplit(out[a].text) ELSE <<>>)
         \o WordsWritten(i, a + 1, b)

\* the summed duration of the blocks a..b that belong to input segment i
RECURSIVE DurationWritten(_, _, _)
DurationWritten(i, a, b) ==
    IF a > b THEN RInt(0)
    ELSE RAdd(IF formatted_segments[a].src = i THEN CueDuration(a) ELSE RInt(0),
              DurationWritten(i, a + 1, b))

\* a microsecond: sums and products of times are compared up to the rounding
\* of the arithmetic, far below the millisecond that is written
Eps == Rat(1, 1000000)

\* x and y differ by no more than Eps
Near(x, y) == RLe(RSub(x, y), Eps) /\ RLe(RSub(y, x), Eps)

\* each segment has end_time > start_time and starts no earlier than the
\* one before it ends
TemporalOrder(segs) ==
    \A i \in 1..Len(segs) :
        /\ Positive(segs[i])
        /\ i > 1 => RLe(segs[i - 1].end_time, segs[i].start_time)

\* C1: every written cue has end_time strictly greater than start_time,
\* whatever splitting, clamping and padding was applied before it was
\* written.
C1_EndAfterStart ==
    \A k \in Cues : RLt(out[k].start_time, out[k].end_time)

\* C1's case: a cue was written for a segment that reached the writer with
\* end_time <= start_time, so that its written end is the padded one
C1_Witness ==
    /\ pc = "done"
    /\ \E k \in Cues :
          /\ formatted_segments[k].same
          /\ ~Positive(input[formatted_segments[k].src])
          /\ out[k].end_time = RAdd(input[formatted_segments[k].src].start_time, MinPad)

\* C2: every written cue has at most max_lines_per_block lines, and each
\* line is no longer than max_chars_per_segment unless it is one single word.
C2_LineLimits ==
    \A k \in Cues :
        /\ Len(CueLines(k)) <= cfg.max_lines_per_block
        /\ \A n \in 1..Len(CueLines(k)) :
              \/ Len(CueLines(k)[n]) <= cfg.max_chars_per_segment
              \/ StrSplit(CueLines(k)[n]) = <<CueLines(k)[n]>>

\* C2's case: a written cue whose text was re-wrapped into more lines than
\* max_lines_per_block, and a written line that is one over-long word
C2_Witness ==
    /\ \E k \in Cues :
          Len(WrapLines(SplitLines(formatted_segments[k].text),
                        cfg.max_chars_per_segment)) > cfg.max_lines_per_block
    /\ \E k \in Cues : \E n \in 1..Len(CueLines(k)) :
          Len(CueLines(k)[n]) > cfg.max_chars_per_segment

\* C3: for segments in temporal order, the start_time values of the written
\* cues are non-decreasing in emission order.  Stated for the transcripts
\* in which every segment also has text, as the data model has it.
C3_StartsNonDecreasing ==
    (TemporalOrder(input) /\ \A i \in 1..Len(input) : HasWords(input[i])) =>
        \A k \in Cues : k > 1 => RLe(out[k - 1].start_time, out[k].start_time)

\* C4: the words of all cues written for a Segment with at least one word,
\* concatenated in emission order, are exactly the Segment's words.  Stated
\* for the segments with end_time > start_time, as the data model has them.
C4_WordsConserved ==
    pc = "done" =>
        \A i \in 1..Len(input) :
            (HasWords(input[i]) /\ Positive(input[i])) =>
                WordsWritten(i, 1, Len(out)) = StrSplit(input[i].text)

\* C5: for a Segment with end_time > start_time and at least one word that
\* is turned into k cues, the sum of the k cue durations lies in
\* [original_duration, original_duration + 0.1 * k].
C5_TimeConserved ==
    pc = "done" =>
        \A i \in 1..Len(input) :
            (Positive(input[i]) /\ HasWords(input[i]) /\ CuesOf(i) # {}) =>
                LET total == DurationWritten(i, 1, Len(out))
                    k == Cardinality(CuesOf(i))
                IN  /\ RLe(RSub(Duration(input[i]), Eps), total)
                    /\ RLe(total, RAdd(RAdd(Duration(input[i]), RMul(RInt(k), MinPad)), Eps))

MaxDuration == cfg.max_duration_seconds

\* exactly one cue was written for input segment i, with the segment's times
OneCueUnchanged(i) ==
    \E k \in Cues :
        /\ CuesOf(i) = {k}
        /\ out[k].start_time = input[i].start_time
        /\ out[k].end_time = input[i].end_time

\* C6 as stated: every Segment with duration <= max_duration_seconds and
\* len(text) <= max_chars_per_segment * max_lines_per_block produces exactly
\* one written cue with the Segment's start_time and end_time whose text is
\* a single line equal to the Segment's text.  Stated for the Segments of
\* the data model: end_time > start_time and a text with words.
C6_IdentityAsStated ==
    pc = "done" =>
        \A i \in 1..Len(input) :
            (Positive(input[i]) /\ HasWords(input[i])
             /\ RLe(Duration(input[i]), MaxDuration)
             /\ Len(input[i].text) <= max_chars_combined) =>
                /\ OneCueUnchanged(i)
                /\ \A k \in CuesOf(i) : /\ out[k].text = input[i].text
                                         /\ Len(CueLines(k)) = 1

\* C6 amended: every Segment with 0 < duration <= max_duration_seconds and
\* len(text) <= max_chars_per_segment * max_lines_per_block produces exactly
\* one written cue with the Segment's start_time and end_time; its text is
\* a single line equal to the Segment's text when
\* len(text) <= max_chars_per_segment.
C6_Identity ==
    pc = "done" =>
        \A i \in 1..Len(input) :
            (Positive(input[i])
             /\ RLe(Duration(input[i]), MaxDuration)
             /\ Len(input[i].text) <= max_chars_combined) =>
                /\ OneCueUnchanged(i)
                /\ Len(input[i].text) <= cfg.max_chars_per_segment =>
                      \A k \in CuesOf(i) : /\ out[k].text = input[i].text
                                           /\ Len(CueLines(k)) = 1

\* C6's case: a transcript with a segment of several words that fits one
\* line and was written unchanged, and a segment within the combined budget
\* that was written on two lines
C6_Witness ==
    /\ pc = "done"
    /\ \E i \in 1..Len(input) :
          /\ Positive(input[i]) /\ RLe(Duration(input[i]), MaxDuration)
          /\ Len(StrSplit(input[i].text)) > 1
          /\ Len(input[i].text) <= cfg.max_chars_per_segment
          /\ \E k \in CuesOf(i) : out[k].text = input[i].text
    /\ \E i \in 1..Len(input) :
          /\ Positive(input[i]) /\ RLe(Duration(input[i]), MaxDuration)
          /\ Len(input[i].text) > cfg.max_chars_per_segment
          /\ Len(input[i].text) <= max_chars_combined
          /\ \E k \in CuesOf(i) : Len(CueLines(k)) = 2

\* a cue of the minimum-duration padding: its end is start_time + 0.1
IsPadding(k) == out[k].end_time = RAdd(out[k].start_time, MinPad)

\* C7 as stated: every cue written for a Segment with end_time > start_time
\* has duration <= max_duration_seconds, apart from the 0.1 s padding.
\* Stated for the Segments that have words.
C7_DurationCapAsStated ==
    \A k \in Cues :
        LET seg == input[formatted_segments[k].src]
        IN  (Positive(seg) /\ HasWords(seg)) =>
                RLe(CueDuration(k), MaxDuration) \/ IsPadding(k)

\* C7 amended: max_duration_seconds triggers the duration split with a
\* tolerance of 1.5.  Apart from the 0.1 s padding, a cue written for a
\* Segment with end_time > start_time and at least one word has
\* duration <= max_duration_seconds (up to the rounding of the float
\* arithmetic) when the Segment is longer than 1.5 * max_duration_seconds
\* and duration <= 1.5 * max_duration_seconds otherwise; a Segment without
\* words is written as one cue of the Segment's whole duration.
C7_DurationCap ==
    \A k \in Cues :
        LET seg == input[formatted_segments[k].src]
        IN  Positive(seg) =>
                IF HasWords(seg)
                THEN \/ IsPadding(k)
                     \/ IF RLt(RMul(MaxDuration, Tolerance), Duration(seg))
                        THEN RLe(CueDuration(k), RAdd(MaxDuration, Eps))
                        ELSE RLe(CueDuration(k), RMul(MaxDuration, Tolerance))
                ELSE CueDuration(k) = Duration(seg)

\* C7's case: a cue longer than max_duration_seconds written for a segment
\* inside the tolerance
C7_Witness ==
    \E k \in Cues :
        LET seg == input[formatted_segments[k].src]
        IN  /\ HasWords(seg)
            /\ RLt(MaxDuration, Duration(seg))
            /\ RLe(Duration(seg), RMul(MaxDuration, Tolerance))
            /\ RLt(MaxDuration, CueDuration(k))

\* C7's other case: the cues of a segment that was split by duration
C7_SplitReached ==
    \E k \in Cues :
        LET seg == input[formatted_segments[k].src]
        IN  /\ RLt(RMul(MaxDuration, Tolerance), Duration(seg))
            /\ Cardinality(CuesOf(formatted_segments[k].src)) > 1
            /\ ~IsPadding(k)

\* C8: a Segment whose text has no usable words produces no cue block.
\* Stated for end_time > start_time, the case of Scenario E.
C8_NoWordsNoCue ==
    \A i \in 1..Len(input) :
        (~HasWords(input[i]) /\ Positive(input[i])) => CuesOf(i) = {}

\* C9: a Segment with end_time <= start_time and at least one word yields at
\* least one cue, the first starting at the Segment's start_time, every cue
\* of it has duration 0.1 s, and all of its words are written.
C9_ZeroDurationPadded ==
    pc = "done" =>
        \A i \in 1..Len(input) :
            (~Positive(input[i]) /\ HasWords(input[i])) =>
                /\ CuesOf(i) # {}
                /\ \A k \in CuesOf(i) :
                      /\ IsPadding(k)
                      /\ (\A j \in CuesOf(i) : k <= j) =>
                            out[k].start_time = input[i].start_time
                /\ WordsWritten(i, 1, Len(out)) = StrSplit(input[i].text)

\* C10: format_subtitles never mutates a Segment of the TranscriptionResult
\* it receives: every input Segment keeps its start_time, end_time and text.
\* Stated for the transcripts in which every segment has words.
C10_InputNotMutated ==
    (\A i \in 1..Len(input) : HasWords(input[i])) => segments = input

\* C11: for every configuration, limits of 0 included, format_subtitles
\* completes normally or raises FormattingError; no other exception, in
\* particular no division by zero of the splitting arithmetic, reaches the
\* caller.  Stated for the Segments of the data model: end_time > start_time
\* and a text with words.
C11_OnlyFormattingError ==
    (\A i \in 1..Len(input) : Positive(input[i]) /\ HasWords(input[i])) =>
        raised \in {"none", "FormattingError"}

\* C12: the indices written to the file are exactly 1, 2, ..., N in emission
\* order: the k-th block carries index k, however many cues each segment was
\* split into, whatever was dropped and whether a cue was padded.
C12_IndicesSequential ==
    /\ \A k \in 1..Len(out) : out[k].index = k
    /\ pc \in {"write", "done"} => subtitle_index = Len(out) + 1

\* C12's case: a finished file of at least three blocks for two segments,
\* one of them split into several cues with a padded one among them, and
\* with words of a segment dropped
C12_Witness ==
    /\ pc = "done"
    /\ Len(out) >= 3
    /\ Len(input) = 2
    /\ \E i \in 1..Len(input) :
          /\ Cardinality(CuesOf(i)) >= 2
          /\ \E k \in CuesOf(i) : IsPadding(k) /\ RLt(input[i].end_time, out[k].end_time)
    /\ \E i \in 1..Len(input) :
          Len(WordsWritten(i, 1, Len(out))) < Len(StrSplit(input[i].text))

\* ---- Scenario B: one long Segment of repeated words, default limits ----

\* the text of n repetitions of a word joined by single spaces
Repeat(word, n) == StrJoin(<<" ">>, [k \in 1..n |-> word])

\* the defaults of format_subtitles: 80 / 7.0 / 2
DefaultConfig ==
    [max_chars_per_segment |-> 80,
     max_duration_seconds |-> RInt(7),
     max_lines_per_block |-> 2]

MaxRepeat == 100

ScenarioB(n) == Segment(RInt(0), RInt(20), Repeat(<<"w", "o", "r", "d">>, n))

InitScenarioB == \E n \in 1..MaxRepeat : Start(DefaultConfig, <<ScenarioB(n)>>)

SpecScenarioB == InitScenarioB /\ [][Next]_vars

\* the number of words written in block k
CueWordCount(k) == Len(StrSplit(out[k].text))

\* C13: Scenario B, Segment(0, 20, 100 x "word") with 80 / 7.0 / 2, yields
\* exactly 3 written cues with the time windows [0, 20/3], [20/3, 40/3] and
\* [40/3, 20], and the written cues contain 33, 33 and 34 words.
C13_ScenarioB ==
    (pc = "done" /\ input = <<ScenarioB(100)>>) =>
        /\ Len(out) = 3
        /\ out[1].start_time = RInt(0)     /\ out[1].end_time = Rat(20, 3)
        /\ out[2].start_time = Rat(20, 3)  /\ out[2].end_time = Rat(40, 3)
        /\ out[3].start_time = Rat(40, 3)  /\ out[3].end_time = RInt(20)
        /\ CueWordCount(1) = 33
        /\ CueWordCount(2) = 33
        /\ CueWordCount(3) = 34

\* the text of the segment is one single whitespace-free token
OneToken(seg) == StrSplit(seg.text) = <<seg.text>>

\* the number of milliseconds a rendered timestamp stands for
Millis(t) == ((t.hrs * 60 + t.mins) * 60 + t.secs) * 1000 + t.ms

\* C14 as stated: a Segment with 0 < duration <= 1.5 * max_duration_seconds
\* whose text is one single whitespace-free token longer than
\* max_chars_per_segment * max_lines_per_block yields exactly one written
\* cue with exactly one line, the unbroken token, spanning exactly
\* [start_time, end_time] of the Segment.
C14_UnbreakableTokenAsStated ==
    pc = "done" =>
        \A i \in 1..Len(input) :
            (Positive(input[i])
             /\ RLe(Duration(input[i]), RMul(MaxDuration, Tolerance))
             /\ OneToken(input[i])
             /\ Len(input[i].text) > max_chars_combined) =>
                /\ Cardinality(CuesOf(i)) = 1
                /\ \A k \in CuesOf(i) :
                      /\ out[k].start_time = input[i].start_time
                      /\ out[k].end_time = input[i].end_time
                      /\ out[k].start = format_time_srt(input[i].start_time)
                      /\ out[k].end = format_time_srt(input[i].end_time)
                      /\ CueLines(k) = <<input[i].text>>

\* C14 amended: such a Segment yields exactly one written cue with exactly
\* one line, the unbroken token, that starts at start_time of the Segment
\* and ends at its end_time or a rounding error before it.  The cue goes
\* through the character split, which computes its end as
\* start_time + len(text) * (duration / len(text)) clamped to end_time: it
\* is never after end_time, differs from it by less than a microsecond, and
\* the written end timestamp is the one of end_time or one millisecond
\* before it.
C14_UnbreakableToken ==
    pc = "done" =>
        \A i \in 1..Len(input) :
            (Positive(input[i])
             /\ RLe(Duration(input[i]), RMul(MaxDuration, Tolerance))
             /\ OneToken(input[i])
             /\ Len(input[i].text) > max_chars_combined) =>
                /\ Cardinality(CuesOf(i)) = 1
                /\ \A k \in CuesOf(i) :
                      /\ out[k].start_time = input[i].start_time
                      /\ RLe(out[k].end_time, input[i].end_time)
                      /\ Near(out[k].end_time, input[i].end_time)
                      /\ out[k].start = format_time_srt(input[i].start_time)
                      /\ Millis(format_time_srt(input[i].end_time)) - Millis(out[k].end)
                             \in {0, 1}
                      /\ CueLines(k) = <<input[i].text>>

\* C14's case: the cue written for such a token that went through the
\* character split (a new Segment, not the caller's) and is longer than
\* max_duration_seconds
C14_Witness ==
    /\ pc = "done"
    /\ \E i \in 1..Len(input) :
          /\ Positive(input[i])
          /\ RLt(MaxDuration, Duration(input[i]))
          /\ RLe(Duration(input[i]), RMul(MaxDuration, Tolerance))
          /\ OneToken(input[i])
          /\ Len(input[i].text) > max_chars_combined
          /\ cfg.max_lines_per_block > 1
          /\ \E k \in CuesOf(i) : /\ ~formatted_segments[k].same
                                   /\ out[k].text = input[i].text

\* the formatted segments derived from input segment i
PiecesOf(i) == SelectSeq(formatted_segments, LAMBDA f : f.src = i)

\* the pieces a splitter returned, as formatted segments of input segment i
AsFormatted(i, ps) == [k \in 1..Len(ps) |-> Formatted(i, ps[k])]

\* n = floor(duration / max_duration) + 1: the n with
\* (n - 1) * max_duration <= duration < n * max_duration (the products are
\* exact for the limits of Configs, which are whole seconds, so that n is
\* at most the whole seconds of the duration plus 1)
NumSplits(seg) ==
    CHOOSE n \in 1..(RTrunc(Duration(seg)) + 1) :
        /\ RLe(RMul(RInt(n - 1), MaxDuration), Duration(seg))
        /\ RLt(Duration(seg), RMul(RInt(n), MaxDuration))

\* the words of the chunks, chunk by chunk
ChunkWords(chunks) == [k \in 1..Len(chunks) |-> StrSplit(chunks[k].text)]

\* C15: a Segment is duration-split exactly when
\* duration > 1.5 * max_duration; then, with n = floor(duration / max_duration) + 1
\* and at least n words, exactly n chunks are produced, each of the first
\* n - 1 holds floor(word_count / n) consecutive words and the last holds
\* all remaining ones, so that the chunks' words in order are the Segment's.
C15_WordPartition ==
    \A i \in 1..Len(input) :
        (pc = "split" /\ next_segment > i /\ HasWords(input[i])) =>
            LET seg == input[i]
                words == StrSplit(seg.text)
                chunks == DurationChunks(seg, MaxDuration)
                n == NumSplits(seg)
                q == Len(words) \div n
            IN  IF ExceedsDuration(seg, MaxDuration)
                THEN /\ PiecesOf(i) = AsFormatted(i, SplitChunks(chunks, max_chars_combined,
                                                                cfg.max_lines_per_block))
                     /\ Len(words) >= n =>
                           /\ Len(chunks) = n
                           /\ \A k \in 1..(n - 1) :
                                 ChunkWords(chunks)[k] = SubSeq(words, (k - 1) * q + 1, k * q)
                           /\ ChunkWords(chunks)[n] = SubSeq(words, (n - 1) * q + 1, Len(words))
                           /\ Flatten(ChunkWords(chunks)) = words
                ELSE PiecesOf(i) =
                        AsFormatted(i, IF Len(seg.text) > max_chars_combined
                                       THEN split_segment_by_chars(seg, max_chars_combined,
                                                                   cfg.max_lines_per_block)
                                       ELSE <<Piece(seg.start_time, seg.end_time, seg.text, TRUE)>>)

\* C15's case: a segment split by duration into n chunks with a word count
\* that n does not divide, each chunk short enough to become one formatted
\* segment
C15_Witness ==
    \E i \in 1..Len(input) :
        /\ pc = "split" /\ next_segment > i
        /\ ExceedsDuration(input[i], MaxDuration)
        /\ Len(StrSplit(input[i].text)) > NumSplits(input[i])
        /\ Len(StrSplit(input[i].text)) % NumSplits(input[i]) # 0
        /\ Len(PiecesOf(i)) = NumSplits(input[i])
        /\ Len(StrSplit(PiecesOf(i)[Len(PiecesOf(i))].text)) > 1

\* C16: the chunks produced by duration-splitting a Segment with at least
\* one word cover the Segment's time range: the first chunk starts at the
\* Segment's start_time, each later chunk starts where the previous one
\* ends, and the last chunk ends at the Segment's end_time, also when the
\* Segment has fewer words than n = floor(duration / max_duration) + 1.
C16_ChunksCover ==
    \A i \in 1..Len(input) :
        (pc = "split" /\ next_segment > i /\ HasWords(input[i])
         /\ ExceedsDuration(input[i], MaxDuration)) =>
            LET chunks == DurationChunks(input[i], MaxDuration)
            IN  /\ chunks # <<>>
                /\ chunks[1].start_time = input[i].start_time
                /\ \A k \in 2..Len(chunks) : chunks[k].start_time = chunks[k - 1].end_time
                /\ chunks[Len(chunks)].end_time = input[i].end_time

\* input segment i went to the character split as it is: no duration split,
\* and a text longer than max_chars_per_segment * max_lines_per_block
CharSplit(i) ==
    /\ ~ExceedsDuration(input[i], MaxDuration)
    /\ Len(input[i].text) > max_chars_combined

\* C17: for every Segment with end_time > start_time that the character
\* split splits (len(text) > max_chars), the last sub-span it returns ends
\* exactly at the Segment's end_time, also when the cue holding the last
\* word is flushed inside the word loop and when earlier cues were padded.
C17_LastEndsAtSegmentEnd ==
    \A i \in 1..Len(input) :
        (pc = "split" /\ next_segment > i /\ Positive(input[i]) /\ CharSplit(i)) =>
            /\ PiecesOf(i) # <<>>
            /\ PiecesOf(i)[Len(PiecesOf(i))].end_time = input[i].end_time

\* C18: every sub-span returned by _split_segment_by_chars has at most
\* max_lines lines (newline-separated) and non-empty text, for every
\* max_lines >= 1, max_lines = 1 included.  Stated for the sub-spans that
\* are new Segments, derived from a Segment with end_time > start_time.
C18_SubSpanLines ==
    \A k \in 1..Len(formatted_segments) :
        (~formatted_segments[k].same /\ Positive(input[formatted_segments[k].src])) =>
            /\ Len(SplitLines(formatted_segments[k].text)) <= cfg.max_lines_per_block
            /\ formatted_segments[k].text # <<>>

\* ---- the rendering of times: one Segment of two words at sampled times ----

\* whole milliseconds around the field boundaries, negative ones included,
\* up to 25:01:01,125
SampleMs ==
    {-1500, -1, 0, 1, 999, 1000, 59999, 60000, 61001, 1799999,
     3599875, 3600000, 3661125, 86399875, 86400000, 90061125}

\* the time of ms whole milliseconds: the float ms / 1000
TimeOfMs(ms) == Rat(ms, 1000)

TimeSamples == {TimeOfMs(ms) : ms \in SampleMs}

\* the default limits with a max_duration_seconds that no sampled span exceeds
UnsplitConfig == [DefaultConfig EXCEPT !.max_duration_seconds = RInt(100000)]

InitTimes ==
    \E s \in TimeSamples, e \in TimeSamples :
        /\ RLt(s, e)
        /\ Start(UnsplitConfig, <<Segment(s, e, <<"h", "i">>)>>)

SpecTimes == InitTimes /\ [][Next]_vars

\* the fields f are the rendering of the time t that the claim describes
Decomposed(t, f) ==
    IF RLt(t, RInt(0))
    THEN f = [hrs |-> 0, mins |-> 0, secs |-> 0, ms |-> 0]
    ELSE \A ms \in SampleMs :
            t = TimeOfMs(ms) =>
                /\ f.hrs >= 0
                /\ f.mins \in 0..59
                /\ f.secs \in 0..59
                /\ f.ms \in 0..999
                /\ f.hrs * 3600000 + f.mins * 60000 + f.secs * 1000 + f.ms = ms

\* C19: format_time_srt decomposes a non-negative time of ms whole
\* milliseconds into fields with 0 <= mins <= 59, 0 <= secs <= 59,
\* 0 <= mmm <= 999 and hrs >= 0 unbounded such that
\* hrs * 3600000 + mins * 60000 + secs * 1000 + mmm = ms; every negative
\* input is rendered as 00:00:00,000.
C19_TimeFields ==
    \A k \in Cues :
        /\ Decomposed(out[k].start_time, out[k].start)
        /\ Decomposed(out[k].end_time, out[k].end)

\* C19's case: a written cue whose start is negative and whose end is
\* 25:01:01,125
C19_Witness ==
    \E k \in Cues :
        /\ RLt(out[k].start_time, RInt(0))
        /\ out[k].start = [hrs |-> 0, mins |-> 0, secs |-> 0, ms |-> 0]
        /\ out[k].end_time = TimeOfMs(90061125)
        /\ out[k].end = [hrs |-> 25, mins |-> 1, secs |-> 1, ms |-> 125]

\* the number of positions of the sequence ws that hold the word w
Count(w, ws) == Cardinality({n \in 1..Len(ws) : ws[n] = w})

\* the words of the formatted segments derived from input segment i
PieceWords(i) == Flatten([k \in 1..Len(PiecesOf(i)) |-> StrSplit(PiecesOf(i)[k].text)])

\* the threshold of one line in the character split: max_chars // max_lines
LineThreshold == max_chars_combined \div cfg.max_lines_per_block

\* C20: in the character split, a word longer than the per-line threshold
\* max_chars // max_lines is kept intact and appears exactly once in the
\* returned sub-spans: it is never broken and never repeated on a second
\* line or in a second cue, also when it is not the last word and when it
\* is longer than max_chars.
C20_LongWordOnce ==
    \A i \in 1..Len(input) :
        (pc = "split" /\ next_segment > i /\ Positive(input[i]) /\ CharSplit(i)) =>
            LET words == StrSplit(input[i].text)
            IN  \A n \in 1..Len(words) :
                    Len(words[n]) > LineThreshold =>
                        Count(words[n], PieceWords(i)) = Count(words[n], words)

\* the lines of the formatted segments derived from input segment i
PieceLines(i) == Flatten([k \in 1..Len(PiecesOf(i)) |-> SplitLines(PiecesOf(i)[k].text)])

\* C21: during the packing of the character split a word is appended to the
\* current line only if the resulting line does not exceed the per-line
\* threshold max_chars // max_lines; hence every line of a returned sub-span
\* that holds two or more words has length <= max_chars // max_lines.
\* Stated for the Segments with end_time > start_time.
C21_PackedLineWithinThreshold ==
    \A i \in 1..Len(input) :
        (pc = "split" /\ next_segment > i /\ Positive(input[i]) /\ CharSplit(i)) =>
            \A n \in 1..Len(PieceLines(i)) :
                Len(StrSplit(PieceLines(i)[n])) >= 2 =>
                    Len(PieceLines(i)[n]) <= LineThreshold

\* the sub-spans _split_segment_by_chars flushes inside its word loop, before
\* the remaining text is added as the last block
LoopSubSpans(segment, max_chars, max_lines) ==
    LET words == StrSplit(segment.text)
        time_per_char == RDiv(RSub(segment.end_time, segment.start_time),
                              RInt(Len(segment.text)))
    IN  CharLoop(CharState(segment.start_time), words, 1, Len(words),
                 max_chars, max_lines, time_per_char, segment.end_time).split_segments

\* the characters of a text, every line counted and the newlines left out
LineChars(text) == Len(text) - (Len(SplitLines(text)) - 1)

\* a sub-span flushed inside the word loop that ends before the segment's
\* end and does not last 0.1 s: its end was neither clamped nor padded
Unadjusted(p, seg) ==
    /\ RLt(p.end_time, seg.end_time)
    /\ p.end_time # RAdd(p.start_time, MinPad)

\* C22: the character split allocates time in proportion to characters:
\* every sub-span flushed inside the word loop to which neither the clamp
\* to the segment's end_time nor the 0.1 s padding applies has the duration
\* (characters of its text, every line counted) * (duration / len(text)).
\* The newlines between its lines may be counted as characters or not.
C22_TimeProportionalToChars ==
    \A i \in 1..Len(input) :
        (pc = "split" /\ next_segment > i /\ Positive(input[i]) /\ CharSplit(i)) =>
            LET seg == input[i]
                time_per_char == RDiv(Duration(seg), RInt(Len(seg.text)))
                loop == LoopSubSpans(seg, max_chars_combined, cfg.max_lines_per_block)
            IN  \A k \in 1..Len(loop) :
                    /\ PiecesOf(i)[k] = Formatted(i, loop[k])
                    /\ Unadjusted(loop[k], seg) =>
                          \/ Near(Duration(loop[k]),
                                  RMul(RInt(LineChars(loop[k].text)), time_per_char))
                          \/ Near(Duration(loop[k]),
                                  RMul(RInt(Len(loop[k].text)), time_per_char))

\* the pieces ps form a chain that starts at the time start: each piece
\* starts where the one before it ends
IsChain(start, ps) ==
    /\ ps # <<>> => ps[1].start_time = start
    /\ \A k \in 2..Len(ps) : ps[k].start_time = ps[k - 1].end_time

\* the blocks of the character split of a segment before the closing filter
Unfiltered(segment, max_chars, max_lines) ==
    LET words == StrSplit(segment.text)
        time_per_char == RDiv(RSub(segment.end_time, segment.start_time),
                              RInt(Len(segment.text)))
    IN  CharFlush(CharLoop(CharState(segment.start_time), words, 1, Len(words),
                           max_chars, max_lines, time_per_char, segment.end_time),
                  segment.end_time)

\* C23: the sub-spans _split_segment_by_chars returns for one Segment form a
\* gap-free, overlap-free chain: the first starts at the Segment's
\* start_time and every later one starts exactly at the end_time of the one
\* before it, also after the closing filter has removed sub-spans with
\* empty text or non-positive duration.  Checked for the input segments
\* that go to the character split and for the chunks of the duration split.
C23_SubSpansChained ==
    \A i \in 1..Len(input) :
        (pc = "split" /\ next_segment > i) =>
            /\ CharSplit(i) => IsChain(input[i].start_time, PiecesOf(i))
            /\ ExceedsDuration(input[i], MaxDuration) =>
                  LET chunks == DurationChunks(input[i], MaxDuration)
                  IN  \A c \in 1..Len(chunks) :
                          IsChain(chunks[c].start_time,
                                  split_segment_by_chars(chunks[c], max_chars_combined,
                                                         cfg.max_lines_per_block))

\* C23's case: the character split of a segment built three blocks, the
\* closing filter removed one, and the two that were returned are chained
C23_Witness ==
    \E i \in 1..Len(input) :
        /\ pc = "split" /\ next_segment > i
        /\ CharSplit(i)
        /\ HasWords(input[i])
        /\ Len(Unfiltered(input[i], max_chars_combined, cfg.max_lines_per_block)) = 3
        /\ Len(PiecesOf(i)) = 2
        /\ PiecesOf(i)[2].start_time = PiecesOf(i)[1].end_time

\* C24: format_subtitles splits every input segment before it opens the
\* output file: the file is touched only after the splitting loop has gone
\* through all segments, and if splitting a segment raises, the file at
\* output_path has not been created or truncated and nothing was written.
C24_SplitBeforeOpen ==
    /\ file # "untouched" => next_segment > Len(segments)
    /\ raised = "ZeroDivisionError" =>
          /\ file = "untouched"
          /\ out = <<>>
          /\ next_segment <= Len(segments)

\* C24's case: the first segment of a transcript was split, the splitting of
\* the second one raised, and the file is untouched
C24_Witness ==
    /\ raised = "ZeroDivisionError"
    /\ pc = "failed"
    /\ Len(segments) = 2
    /\ next_segment = 2
    /\ formatted_segments # <<>>
    /\ file = "untouched"

\* ---- format_subtitles called twice on the same TranscriptionResult ----

\* limits with a max_duration_seconds of 0.04 s and of 1 s
TwiceConfigs ==
    [max_chars_per_segment : 1..MaxChars,
     max_duration_seconds : {Rat(1, 25), RInt(1)},
     max_lines_per_block : 1..MaxLines]

\* the single Segments that last no longer than 1 s
TwiceSegments == {seg \in OneSegment : RLe(Duration(seg), RInt(1))}

InitTwice == \E c \in TwiceConfigs, seg \in TwiceSegments : Start(c, <<seg>>)

\* the caller calls format_subtitles again, with the same TranscriptionResult
\* object (its Segments as the first call left them), the same limits and
\* the same output_path: the locals start afresh, the file is as it was left
CallAgain ==
    /\ pc = "done"
    /\ call = 1
    /\ call' = 2
    /\ first_out' = out
    /\ input' = segments
    /\ pc' = "split"
    /\ next_segment' = 1
    /\ formatted_segments' = <<>>
    /\ next_cue' = 1
    /\ subtitle_index' = 1
    /\ UNCHANGED <<cfg, segments, file, out, raised, generate_vars, batch_vars>>

NextTwice ==
    \/ SplitNext
    \/ OpenOutput
    \/ OpenFails
    \/ WriteCue
    \/ WriteFails
    \/ CloseOutput
    \/ CloseFails
    \/ CallAgain

SpecTwice == InitTwice /\ [][NextTwice]_vars

\* C25: formatting is repeatable: calling format_subtitles twice in a row on
\* the same TranscriptionResult object with the same configuration writes
\* identical output both times, for every configuration with
\* max_duration_seconds > 0, very small values included, and every input,
\* segments with end_time <= start_time included.
C25_Repeatable ==
    (call = 2 /\ pc = "done") => out = first_out

\* ------------------------------------------------------------------------
\* SubtitleGenerator.generate (src/syncsub/subtitle_generator.py)
\* ------------------------------------------------------------------------

\* SyncSubError and its subclasses (exceptions.py)
SyncSubErrors ==
    {"SyncSubError", "ConfigurationError", "AudioExtractionError", "TranscriptionError",
     "TranslationError", "FormattingError", "FileSystemError"}

\* the exceptions that are no Exception: "except Exception" lets them pass
BaseOnly == {"KeyboardInterrupt", "SystemExit", "GeneratorExit"}

\* what leaves generate when the exception e is raised inside its try
\* statement: the first except clause re-raises SyncSubError, its subclasses
\* and FileNotFoundError, the second one wraps every other Exception in
\* SyncSubError; what is no Exception passes both
Handled(e) ==
    IF e \in SyncSubErrors \cup {"FileNotFoundError"} \cup BaseOnly
    THEN e
    ELSE "SyncSubError"

\* what the extractor or the transcriber handed to the generator may raise
\* besides its own errors: a builtin the first except clause names, a
\* SyncSubError subclass of another component, another Exception, and
\* exceptions that are no Exception
Raisable ==
    {"FileNotFoundError", "ConfigurationError", "RuntimeError", "SystemExit", "GeneratorExit"}

\* the transcriber's results: up to MaxSegs of these segments (in a batch
\* every video has the same short transcript)
GenSegments ==
    {Segment(RInt(0), RAdd(RInt(0), d), t) :
        d \in {RInt(0), RInt(1)}, t \in {<<>>, <<"a">>, <<"a", " ", "b", "b">>}}

TranscriberResults ==
    IF bpc = "none"
    THEN UNION {[1..n -> GenSegments] : n \in 1..MaxSegs}
    ELSE {<<Segment(RInt(0), RInt(1), <<"a">>)>>}

\* the translator's results for a text that is not empty
Translations == {<<"x">>, <<"x", " ", "y", "y">>}

\* the limits of the generator's configuration, a character limit of 0 included
GenConfigs ==
    [max_chars_per_segment : {0, 1, 3},
     max_duration_seconds : {RInt(1)},
     max_lines_per_block : 1..MaxLines]

\* no call of format_subtitles was made yet
NoCall ==
    /\ input = <<>>
    /\ segments = <<>>
    /\ pc = "idle"
    /\ next_segment = 1
    /\ formatted_segments = <<>>
    /\ next_cue = 1
    /\ subtitle_index = 1
    /\ file = "untouched"
    /\ out = <<>>
    /\ raised = "none"
    /\ call = 1
    /\ first_out = <<>>

\* generate was called: the output directory is ensured next (line 112)
GenerateCalled ==
    /\ gpc = "start"
    /\ audio = "none"
    /\ removals = 0
    /\ pending = "none"
    /\ transcribed = <<>>
    /\ next_translation = 1
    /\ failed_translations = {}
    /\ malayalam_segments = <<>>
    /\ en_file = "absent"
    /\ ml_file = "absent"

InitGenerate == \E c \in GenConfigs : cfg = c /\ NoCall /\ GenerateCalled /\ NoBatch

format_vars == <<cfg, input, segments, pc, next_segment, formatted_segments, next_cue,
                 subtitle_index, file, out, raised, call, first_out>>

\* self.subtitle_formatter.format_subtitles(result, path, ...) is entered
BeginCall(segs) ==
    /\ input' = segs
    /\ segments' = segs
    /\ pc' = "split"
    /\ next_segment' = 1
    /\ formatted_segments' = <<>>
    /\ next_cue' = 1
    /\ subtitle_index' = 1
    /\ file' = "untouched"
    /\ out' = <<>>
    /\ raised' = "none"
    /\ UNCHANGED <<cfg, call, first_out>>

\* an exception raised inside the try statement: the except clauses decide
\* what leaves generate, the finally clause is next
RaiseInTry(e) ==
    /\ pending' = Handled(e)
    /\ gpc' = "finally"

\* the file a call of format_subtitles leaves at its output path
FileAfterCall == IF file = "untouched" THEN "absent" ELSE "exists"

\* ensure_dir_exists(output_dir) and _get_output_paths, before the try
EnsureOutputDir ==
    /\ gpc = "start"
    /\ gpc' = "extract"
    /\ UNCHANGED <<format_vars, audio, removals, pending, transcribed, next_translation,
                   failed_translations, malayalam_segments, en_file, ml_file>>
    /\ UNCHANGED batch_vars

\* ensure_dir_exists raises outside the try statement, FileSystemError for a
\* path that cannot be made a directory and ValueError for an empty path
\* (which a batch never passes: its output_dir ends in "Subs"): the
\* exception leaves generate as it is, the finally clause does not run
EnsureOutputDirFails ==
    /\ gpc = "start"
    /\ gpc' = "raised"
    /\ pending' \in IF bpc = "none" THEN {"FileSystemError", "ValueError"}
                                    ELSE {"FileSystemError"}
    /\ UNCHANGED <<format_vars, audio, removals, transcribed, next_translation,
                   failed_translations, malayalam_segments, en_file, ml_file>>
    /\ UNCHANGED batch_vars

\* step 1: extract_audio returns the path of the file it made
ExtractAudio ==
    /\ gpc = "extract"
    /\ audio' = "extracted"
    /\ gpc' = "transcribe"
    /\ UNCHANGED <<format_vars, removals, pending, transcribed, next_translation,
                   failed_translations, malayalam_segments, en_file, ml_file>>
    /\ UNCHANGED batch_vars

\* step 1 raises: extracted_audio_path stays None
ExtractFails ==
    /\ gpc = "extract"
    /\ \E e \in Raisable \cup {"AudioExtractionError", "FileSystemError"} :
          RaiseInTry(e)
    /\ UNCHANGED <<format_vars, audio, removals, transcribed, next_translation,
                   failed_translations, malayalam_segments, en_file, ml_file>>
    /\ UNCHANGED batch_vars

\* the file at extracted_audio_path disappears before _cleanup_temp_files
\* looks for it ("Audio file disappeared during transcription?", transcriber.py)
AudioDisappears ==
    /\ gpc \in {"transcribe", "format_en", "translate", "format_ml", "finally"}
    /\ audio = "extracted"
    /\ audio' = "missing"
    /\ UNCHANGED <<format_vars, gpc, removals, pending, transcribed, next_translation,
                   failed_translations, malayalam_segments, en_file, ml_file>>
    /\ UNCHANGED batch_vars

\* step 2 returns segments, and step 3 calls format_subtitles for them
Transcribe ==
    /\ gpc = "transcribe"
    /\ audio = "extracted"
    /\ \E segs \in TranscriberResults :
          /\ transcribed' = segs
          /\ BeginCall(segs)
    /\ gpc' = "format_en"
    /\ UNCHANGED <<audio, removals, pending, next_translation, failed_translations,
                   malayalam_segments, en_file, ml_file>>
    /\ UNCHANGED batch_vars

\* step 2 raises (FileNotFoundError always when the audio file is not there,
\* transcriber.py lines 84-85), or it returns no segments and line 127
\* raises SyncSubError
TranscribeFails ==
    /\ gpc = "transcribe"
    /\ \E e \in IF audio = "extracted"
               THEN Raisable \cup {"TranscriptionError", "SyncSubError"}
               ELSE {"FileNotFoundError"} :
          RaiseInTry(e)
    /\ UNCHANGED <<format_vars, audio, removals, transcribed, next_translation,
                   failed_translations, malayalam_segments, en_file, ml_file>>
    /\ UNCHANGED batch_vars

\* step 3 returned: the English file is written, the translation loop starts
EnglishFormatted ==
    /\ gpc = "format_en"
    /\ pc = "done"
    /\ en_file' = FileAfterCall
    /\ malayalam_segments' = <<>>
    /\ next_translation' = 1
    /\ gpc' = "translate"
    /\ UNCHANGED <<format_vars, audio, removals, pending, transcribed,
                   failed_translations, ml_file>>
    /\ UNCHANGED batch_vars

\* step 3 raised FormattingError or ZeroDivisionError
EnglishFails ==
    /\ gpc = "format_en"
    /\ pc = "failed"
    /\ en_file' = FileAfterCall
    /\ RaiseInTry(raised)
    /\ UNCHANGED <<format_vars, audio, removals, transcribed, next_translation,
                   failed_translations, malayalam_segments, ml_file>>
    /\ UNCHANGED batch_vars

\* Translator.translate: "" for the empty text, else what the model returns
TranslatedTexts(text) == IF text = <<>> THEN {<<>>} ELSE Translations

\* step 4, one segment: the Segment object of english_result as it is now,
\* with the translated text
TranslateSegment ==
    /\ gpc = "translate"
    /\ next_translation <= Len(segments)
    /\ \E translated_text \in TranslatedTexts(segments[next_translation].text) :
          malayalam_segments' =
              Append(malayalam_segments,
                     Segment(segments[next_translation].start_time,
                             segments[next_translation].end_time,
                             translated_text))
    /\ next_translation' = next_translation + 1
    /\ UNCHANGED <<format_vars, gpc, audio, removals, pending, transcribed,
                   failed_translations, en_file, ml_file>>
    /\ UNCHANGED batch_vars

\* step 4, translate raises (TranslationError, or anything else): the name
\* TranslationError of the except clause (line 158) is not imported by the
\* module (lines 7-14), so evaluating the clause raises NameError, whatever
\* was raised, and NameError leaves the loop
TranslateRaises ==
    /\ gpc = "translate"
    /\ next_translation <= Len(segments)
    /\ segments[next_translation].text # <<>>
    /\ failed_translations' = failed_translations \cup {next_translation}
    /\ RaiseInTry("NameError")
    /\ UNCHANGED <<format_vars, audio, removals, transcribed, next_translation,
                   malayalam_segments, en_file, ml_file>>
    /\ UNCHANGED batch_vars

\* after the loop: step 5 calls format_subtitles for the Malayalam segments,
\* or is skipped when there are none
TranslationDone ==
    /\ gpc = "translate"
    /\ next_translation > Len(segments)
    /\ IF malayalam_segments = <<>>
       THEN gpc' = "finally" /\ UNCHANGED format_vars
       ELSE gpc' = "format_ml" /\ BeginCall(malayalam_segments)
    /\ UNCHANGED <<audio, removals, pending, transcribed, next_translation,
                   failed_translations, malayalam_segments, en_file, ml_file>>
    /\ UNCHANGED batch_vars

\* step 5 returned: the try statement is left normally
MalayalamFormatted ==
    /\ gpc = "format_ml"
    /\ pc = "done"
    /\ ml_file' = FileAfterCall
    /\ gpc' = "finally"
    /\ UNCHANGED <<format_vars, audio, removals, pending, transcribed, next_translation,
                   failed_translations, malayalam_segments, en_file>>
    /\ UNCHANGED batch_vars

\* step 5 raised
MalayalamFails ==
    /\ gpc = "format_ml"
    /\ pc = "failed"
    /\ ml_file' = FileAfterCall
    /\ RaiseInTry(raised)
    /\ UNCHANGED <<format_vars, audio, removals, transcribed, next_translation,
                   failed_translations, malayalam_segments, en_file>>
    /\ UNCHANGED batch_vars

\* Ctrl+C in a call of format_subtitles: KeyboardInterrupt passes its except
\* clauses.  In the splitting loop nothing was opened.  In a pass of the
\* writing loop it comes before or after the assignment of line 293 and
\* after 0 to 3 of the f.write calls of lines 297-299, before line 300; the
\* with statement closes the file with the text handed over so far
InterruptCall ==
    IF pc = "write" /\ next_cue <= Len(formatted_segments)
    THEN LET seg == formatted_segments[next_cue]
             b == Block(subtitle_index, seg)
         IN  \E writes \in 0..3, assigned \in BOOLEAN :
                /\ writes > 0 => assigned
                /\ formatted_segments' =
                       IF assigned
                       THEN [formatted_segments EXCEPT ![next_cue] = Padded(seg)]
                       ELSE formatted_segments
                /\ segments' = IF assigned THEN Assigned(seg) ELSE segments
                /\ malayalam_segments' =
                       IF assigned /\ gpc = "format_ml" THEN Assigned(seg)
                       ELSE malayalam_segments
                /\ out' = IF writes = 0 THEN out
                          ELSE IF writes = 3 THEN Append(out, b)
                          ELSE Append(out, Torn(b, WriteEnds(b)[writes]))
                /\ pc' = "failed"
                /\ raised' = "KeyboardInterrupt"
                /\ file' = "closed"
    ELSE /\ IF pc \in {"split", "write"}
            THEN /\ pc' = "failed"
                 /\ raised' = "KeyboardInterrupt"
                 /\ file' = IF file = "open" THEN "closed" ELSE file
            ELSE UNCHANGED <<pc, raised, file>>
         /\ UNCHANGED <<segments, formatted_segments, out, malayalam_segments>>

\* Ctrl+C while generate runs.  Before the try statement (lines 110-115)
\* KeyboardInterrupt leaves generate at once.  Inside it the finally clause
\* is next; raised where the translation loop's try statement is active
\* (lines 147-157: in a pass before its append, or after the append of the
\* pass before, the last one included), it makes the except clause of line
\* 158 raise NameError.
\* At the end of the try statement or in an except clause (lines 184-195)
\* it replaces what was leaving, and the finally clause still runs.  In the
\* finally clause before os.remove, or after it, it leaves generate.
Interrupt ==
    /\ gpc \in {"start", "extract", "transcribe", "format_en", "translate", "format_ml",
                "finally", "cleaned"}
    /\ InterruptCall
    /\ \/ /\ gpc \in {"start", "cleaned"}
          /\ pending' = "KeyboardInterrupt"
          /\ gpc' = "raised"
       \/ /\ gpc \in {"extract", "transcribe", "format_en", "format_ml"}
          /\ RaiseInTry("KeyboardInterrupt")
       \/ /\ gpc = "translate"
          /\ \E e \in IF next_translation <= Len(segments) \/ next_translation > 1
                     THEN {"KeyboardInterrupt", "NameError"}
                     ELSE {"KeyboardInterrupt"} :
                RaiseInTry(e)
       \/ /\ gpc = "finally"
          /\ pending' = "KeyboardInterrupt"
          /\ \/ gpc' = "finally" /\ pending \notin BaseOnly
             \/ gpc' = "raised"
    /\ en_file' = IF gpc = "format_en" /\ file # "untouched" THEN "exists" ELSE en_file
    /\ ml_file' = IF gpc = "format_ml" /\ file # "untouched" THEN "exists" ELSE ml_file
    /\ UNCHANGED <<cfg, input, next_segment, next_cue, subtitle_index, call, first_out,
                   audio, removals, transcribed, next_translation, failed_translations>>
    /\ UNCHANGED batch_vars

\* Cleanup that removes the audio file only when no exception is leaving
CleanupOnSuccessOnly ==
    /\ gpc = "finally"
    /\ IF audio = "extracted" /\ pending = "none"
       THEN /\ removals' = removals + 1
            /\ audio' \in {"removed", "extracted"}
       ELSE UNCHANGED <<removals, audio>>
    /\ gpc' = "cleaned"
    /\ UNCHANGED <<format_vars, pending, transcribed, next_translation,
                   failed_translations, malayalam_segments, en_file, ml_file>>
    /\ UNCHANGED batch_vars

\* the finally clause: _cleanup_temp_files(extracted_audio_path) calls
\* os.remove when the path is set and the file exists; an OSError of the
\* removal is logged and the file stays
Cleanup ==
    /\ gpc = "finally"
    /\ IF audio = "extracted"
       THEN /\ removals' = removals + 1
            /\ audio' \in {"removed", "extracted"}
       ELSE UNCHANGED <<removals, audio>>
    /\ gpc' = "cleaned"
    /\ UNCHANGED <<format_vars, pending, transcribed, next_translation,
                   failed_translations, malayalam_segments, en_file, ml_file>>
    /\ UNCHANGED batch_vars

\* the finally clause is over: generate returns, or the exception that was
\* leaving the try statement leaves generate
LeaveFinally ==
    /\ gpc = "cleaned"
    /\ gpc' = IF pending = "none" THEN "returned" ELSE "raised"
    /\ UNCHANGED <<format_vars, audio, removals, pending, transcribed, next_translation,
                   failed_translations, malayalam_segments, en_file, ml_file>>
    /\ UNCHANGED batch_vars

NextGenerate ==
    \/ EnsureOutputDir
    \/ EnsureOutputDirFails
    \/ ExtractAudio
    \/ ExtractFails
    \/ AudioDisappears
    \/ Transcribe
    \/ TranscribeFails
    \/ SplitNext
    \/ SplitRaises
    \/ OpenOutput
    \/ OpenFails
    \/ WriteCue
    \/ WriteFails
    \/ CloseOutput
    \/ CloseFails
    \/ EnglishFormatted
    \/ EnglishFails
    \/ TranslateSegment
    \/ TranslateRaises
    \/ TranslationDone
    \/ MalayalamFormatted
    \/ MalayalamFails
    \/ Interrupt
    \/ Cleanup
    \/ LeaveFinally

SpecGenerate == InitGenerate /\ [][NextGenerate]_vars

\* generate has returned or raised
GenerateLeft == gpc \in {"returned", "raised"}

\* C26: in SubtitleGenerator.generate, when translating one segment raises
\* TranslationError, that segment alone is skipped: the remaining segments
\* are still translated, the Malayalam subtitle file is still written from
\* the segments that succeeded, and generate completes without raising.
\* Stated for the calls in which nothing else fails: no Ctrl+C, and no
\* exception of format_subtitles.
C26_TranslationErrorSkipped ==
    (GenerateLeft /\ failed_translations # {}
     /\ pending # "KeyboardInterrupt" /\ raised = "none") =>
        /\ gpc = "returned"
        /\ pending = "none"
        /\ next_translation > Len(transcribed)
        /\ Len(malayalam_segments) = Len(transcribed) - Cardinality(failed_translations)
        /\ malayalam_segments # <<>> => ml_file = "exists"

\* C27: the Malayalam segments that generate builds preserve the original
\* timing: there is one Malayalam segment per translated English segment,
\* in the same order, and its start_time and end_time are the values the
\* transcriber returned for that segment, also for segments with
\* end_time <= start_time that the English formatting pass processed first.
C27_MalayalamTiming ==
    /\ Len(malayalam_segments) <= Len(transcribed)
    /\ \A k \in 1..Len(malayalam_segments) :
          /\ malayalam_segments[k].start_time = transcribed[k].start_time
          /\ malayalam_segments[k].end_time = transcribed[k].end_time

\* a step of transcription, translation or formatting of the call
WorkStep ==
    \/ transcribed' # transcribed
    \/ malayalam_segments' # malayalam_segments
    \/ failed_translations' # failed_translations
    \/ next_translation' # next_translation
    \/ <<pc, next_segment, formatted_segments, next_cue, out, file>>'
           # <<pc, next_segment, formatted_segments, next_cue, out, file>>

\* the exit paths C28 names: the normal return, SyncSubError (a subclass, or
\* the wrapping of an unexpected exception) and FileNotFoundError
NamedExit == GenerateLeft /\ pending \in {"none", "FileNotFoundError"} \cup SyncSubErrors

\* the work of the call is over: no call of format_subtitles is in
\* progress, and the try statement was left
WorkOver == gpc = "finally" /\ pc \in {"idle", "done", "failed"}

\* C28 as stated: on every exit path of generate that is reached after
\* audio extraction succeeded (normal return, SyncSubError,
\* FileNotFoundError, an unexpected exception wrapped in SyncSubError),
\* removal of the extracted temporary audio file is attempted exactly once,
\* and it happens after all transcription, translation and formatting steps
\* of that call.
C28_CleanupOnceAsStated ==
    /\ [](/\ removals <= 1
          /\ (NamedExit /\ audio # "none") => removals = 1)
    /\ [][removals' # removals => WorkOver]_vars
    /\ [][removals = 1 => ~WorkStep]_vars

\* C28 amended: on every exit path of generate that is reached after audio
\* extraction succeeded (the paths named, and every other except a Ctrl+C
\* that comes in the finally clause before os.remove), removal of the
\* extracted temporary audio file is attempted exactly once if the file
\* still exists when the finally clause looks for it, and not at all if it
\* no longer exists (the FileNotFoundError path of the transcriber); the
\* attempt is made in the finally clause, when the try statement was left
\* and no call of format_subtitles is in progress, and no step of
\* transcription, translation or formatting follows it.
C28_CleanupOnce ==
    /\ [](/\ removals <= 1
          /\ (GenerateLeft /\ pending # "KeyboardInterrupt"
              /\ audio \in {"extracted", "removed"}) => removals = 1
          /\ audio \in {"none", "missing"} => removals = 0
          /\ removals = 1 => gpc \in {"cleaned", "returned", "raised"})
    /\ [][removals' # removals => WorkOver]_vars
    /\ [][removals = 1 => ~WorkStep]_vars

\* C28's case: generate raised the SyncSubError that wraps an unexpected
\* exception of the translation loop, after the English file was written,
\* and the removal of the audio file was attempted once
C28_Witness ==
    /\ gpc = "raised"
    /\ pending = "SyncSubError"
    /\ failed_translations # {}
    /\ en_file = "exists"
    /\ audio = "removed"
    /\ removals = 1

\* ---------------------------------------------------------------------
\* run_batch_processing (main_batch.py): the videos of a directory, one
\* call of generate for each
\* ---------------------------------------------------------------------

MaxVideos == 2
MaxEntries == 3

\* the entries of the input directory: MaxVideos video files (the k-th with
\* a letter of its own, ".mp4" in one of the ways to write it, and sizes
\* that can be equal), a file that is no video, a directory whose name
\* ends in ".mp4", a video file whose size cannot be read (os.path.getsize
\* raises OSError) and a file named "mp4"
DirEntries ==
    LET VideoName(k) ==
            <<"v", <<"a", "b", "c", "d", "e", "f", "g", "h">>[k]>>
            \o <<<<".", "m", "p", "4">>, <<".", "M", "p", "4">>,
                  <<".", "M", "P", "4">>>>[1 + ((k - 1) % 3)]
    IN  {[filename |-> VideoName(k), isfile |-> TRUE, oserror |-> FALSE, size |-> 1 + (k % 2)] :
            k \in 1..MaxVideos}
        \cup {[filename |-> <<"n", ".", "t", "x", "t">>, isfile |-> TRUE, oserror |-> FALSE, size |-> 1],
              [filename |-> <<"d", ".", "m", "p", "4">>, isfile |-> FALSE, oserror |-> FALSE, size |-> 1],
              [filename |-> <<"u", ".", "M", "P", "4">>, isfile |-> TRUE, oserror |-> TRUE, size |-> 1],
              [filename |-> <<"m", "p", "4">>, isfile |-> TRUE, oserror |-> FALSE, size |-> 1]}

\* os.listdir gives up to MaxEntries entries of the directory in any order
Listings ==
    UNION {{l \in [1..Cardinality(S) -> S] : \A i, j \in 1..Cardinality(S) : l[i] = l[j] => i = j} :
           S \in {T \in SUBSET DirEntries : Cardinality(T) <= MaxEntries}}

\* line 56: filename.lower().endswith(".mp4"), str.lower() turning the
\* upper-case ASCII letters into lower case
IsMp4(filename) ==
    LET LowerChar(c) ==
            CASE c = "A" -> "a" [] c = "B" -> "b" [] c = "C" -> "c" [] c = "D" -> "d"
              [] c = "E" -> "e" [] c = "F" -> "f" [] c = "G" -> "g" [] c = "H" -> "h"
              [] c = "I" -> "i" [] c = "J" -> "j" [] c = "K" -> "k" [] c = "L" -> "l"
              [] c = "M" -> "m" [] c = "N" -> "n" [] c = "O" -> "o" [] c = "P" -> "p"
              [] c = "Q" -> "q" [] c = "R" -> "r" [] c = "S" -> "s" [] c = "T" -> "t"
              [] c = "U" -> "u" [] c = "V" -> "v" [] c = "W" -> "w" [] c = "X" -> "x"
              [] c = "Y" -> "y" [] c = "Z" -> "z" [] OTHER -> c
        Lower(s) == [k \in 1..Len(s) |-> LowerChar(s[k])]
        EndsWith(s, suffix) ==
            /\ Len(s) >= Len(suffix)
            /\ SubSeq(s, Len(s) - Len(suffix) + 1, Len(s)) = suffix
    IN  EndsWith(Lower(filename), <<".", "m", "p", "4">>)

RECURSIVE SortBySize(_)

\* the list as it was found, not sorted
KeepListingOrder(found) == found

\* videos.sort(key=lambda item: item[1]): ascending size, stable (the last
\* element goes behind the sorted others that are not larger)
SortBySize(found) ==
    IF found = <<>> THEN <<>>
    ELSE LET sorted == SortBySize(SubSeq(found, 1, Len(found) - 1))
             v == found[Len(found)]
             k == Cardinality({i \in 1..Len(sorted) : sorted[i].size <= v.size})
         IN  SubSeq(sorted, 1, k) \o <<v>> \o SubSeq(sorted, k + 1, Len(sorted))

\* find_and_sort_videos: the exception it raises ("none" when it returns)
\* and the list it returns, for a path input_dir that is a directory,
\* nothing, a file, or a directory that os.listdir may not read; lines 56-63
\* append an entry that is a regular file with a name in .mp4 and a size
\* that can be read
find_and_sort_videos(input_dir, entries) ==
    LET Appended(entry) == IsMp4(entry.filename) /\ entry.isfile /\ ~entry.oserror IN
    IF input_dir = "missing" THEN [raised |-> "FileNotFoundError", videos |-> <<>>]
    ELSE IF input_dir = "file" THEN [raised |-> "ValueError", videos |-> <<>>]
    ELSE IF input_dir = "unreadable" THEN [raised |-> "PermissionError", videos |-> <<>>]
    ELSE [raised |-> "none", videos |-> SortBySize(SelectSeq(entries, Appended))]

\* the configurations of a batch: a character limit of 0 makes every
\* call of format_subtitles raise
BatchConfigs ==
    [max_chars_per_segment : {0, 3},
     max_duration_seconds : {RInt(1)},
     max_lines_per_block : {1}]

InitBatch ==
    /\ \E c \in BatchConfigs : cfg = c
    /\ NoCall
    /\ NoGenerate
    /\ bpc = "config"
    /\ \E l \in Listings : listing = l
    /\ videos = <<>>
    /\ video_idx = 1
    /\ attempted = <<>>
    /\ files_processed = 0
    /\ files_failed = 0
    /\ subs = <<>>
    /\ exit_status = "none"
    /\ uncaught = "none"

\* lines 112-118: the configuration is loaded, or ConfigurationError or
\* FileNotFoundError ends the process with status 1
LoadConfig ==
    /\ bpc = "config"
    /\ \/ bpc' = "scan" /\ UNCHANGED exit_status
       \/ bpc' = "exited" /\ exit_status' = 1
    /\ UNCHANGED <<listing, videos, video_idx, attempted, files_processed, files_failed,
                   subs, uncaught>>
    /\ UNCHANGED <<format_vars, generate_vars>>

\* lines 135-144: the videos are found and sorted; without a video the
\* process exits with status 0, with FileNotFoundError or ValueError with
\* status 1, and another exception of os.listdir is not caught (a path
\* that is no readable directory has no entries)
FindVideos ==
    /\ bpc = "scan"
    /\ \E input_dir \in IF listing = <<>>
                       THEN {"directory", "missing", "file", "unreadable"}
                       ELSE {"directory"} :
          LET found == find_and_sort_videos(input_dir, listing)
          IN  /\ videos' = found.videos
              /\ IF found.raised \in {"FileNotFoundError", "ValueError"}
                 THEN /\ bpc' = "exited"
                      /\ exit_status' = 1
                      /\ UNCHANGED uncaught
                 ELSE IF found.raised # "none"
                 THEN /\ bpc' = "raised"
                      /\ uncaught' = found.raised
                      /\ UNCHANGED exit_status
                 ELSE IF found.videos = <<>>
                 THEN /\ bpc' = "no_videos"
                      /\ exit_status' = 0
                      /\ UNCHANGED uncaught
                 ELSE /\ bpc' = "dirs"
                      /\ UNCHANGED <<exit_status, uncaught>>
    /\ UNCHANGED <<listing, video_idx, attempted, files_processed, files_failed, subs>>
    /\ UNCHANGED <<format_vars, generate_vars>>

\* lines 146-158: the output directories are made, or FileSystemError ends
\* the process with status 1
EnsureOutputDirs ==
    /\ bpc = "dirs"
    /\ \/ bpc' = "init" /\ UNCHANGED exit_status
       \/ bpc' = "exited" /\ exit_status' = 1
    /\ UNCHANGED <<listing, videos, video_idx, attempted, files_processed, files_failed,
                   subs, uncaught>>
    /\ UNCHANGED <<format_vars, generate_vars>>

\* lines 160-196: the components are made once, or SyncSubError or another
\* Exception of a constructor ends the process with status 1
InitComponents ==
    /\ bpc = "init"
    /\ \/ bpc' = "loop" /\ UNCHANGED exit_status
       \/ bpc' = "exited" /\ exit_status' = 1
    /\ UNCHANGED <<listing, videos, video_idx, attempted, files_processed, files_failed,
                   subs, uncaught>>
    /\ UNCHANGED <<format_vars, generate_vars>>

\* lines 204-223: the next video of the loop, generate is called for it
StartVideo ==
    /\ bpc = "loop"
    /\ video_idx <= Len(videos)
    /\ attempted' = Append(attempted, videos[video_idx])
    /\ gpc' = "start"
    /\ bpc' = "generate"
    /\ UNCHANGED <<listing, videos, video_idx, files_processed, files_failed, subs,
                   exit_status, uncaught>>
    /\ UNCHANGED <<audio, removals, pending, transcribed, next_translation,
                   failed_translations, malayalam_segments, en_file, ml_file>>
    /\ UNCHANGED format_vars

\* the call of generate is over, its state is gone
LeaveGenerate ==
    /\ gpc' = "none"
    /\ audio' = "none"
    /\ removals' = 0
    /\ pending' = "none"
    /\ transcribed' = <<>>
    /\ next_translation' = 1
    /\ failed_translations' = {}
    /\ malayalam_segments' = <<>>
    /\ en_file' = "absent"
    /\ ml_file' = "absent"
    /\ input' = <<>>
    /\ segments' = <<>>
    /\ pc' = "idle"
    /\ next_segment' = 1
    /\ formatted_segments' = <<>>
    /\ next_cue' = 1
    /\ subtitle_index' = 1
    /\ file' = "untouched"
    /\ out' = <<>>
    /\ raised' = "none"
    /\ UNCHANGED <<cfg, call, first_out>>

\* where a subtitle file is after the move of lines 229-249: os.rename may
\* raise OSError, and the file then stays where generate wrote it
AfterMove(generated, renamed, folder) ==
    IF generated = "absent" THEN "none"
    ELSE IF renamed THEN folder ELSE "unmoved"

\* lines 225-255: generate returned; the files it wrote are moved to their
\* language folders, and the video counts as processed when one was moved
MoveSubtitles ==
    /\ bpc = "generate"
    /\ gpc = "returned"
    /\ \E rename_en, rename_ml \in BOOLEAN :
          LET moved_en == en_file = "exists" /\ rename_en
              moved_ml == ml_file = "exists" /\ rename_ml
          IN  /\ subs' = Append(subs, [en |-> AfterMove(en_file, rename_en, "English"),
                                       ml |-> AfterMove(ml_file, rename_ml, "Malayalam")])
              /\ IF moved_en \/ moved_ml
                 THEN /\ files_processed' = files_processed + 1
                      /\ UNCHANGED files_failed
                 ELSE /\ files_failed' = files_failed + 1
                      /\ UNCHANGED files_processed
    /\ video_idx' = video_idx + 1
    /\ bpc' = "loop"
    /\ LeaveGenerate
    /\ UNCHANGED <<listing, videos, attempted, exit_status, uncaught>>

\* where a subtitle file is when nothing moved it
NotMoved(generated) == IF generated = "absent" THEN "none" ELSE "base"

\* lines 258-260 and 264-266: generate raised SyncSubError or another
\* Exception; the video counts as failed and the loop goes on
VideoFailed ==
    /\ bpc = "generate"
    /\ gpc = "raised"
    /\ pending \notin BaseOnly
    /\ files_failed' = files_failed + 1
    /\ subs' = Append(subs, [en |-> NotMoved(en_file), ml |-> NotMoved(ml_file)])
    /\ video_idx' = video_idx + 1
    /\ bpc' = "loop"
    /\ LeaveGenerate
    /\ UNCHANGED <<listing, videos, attempted, files_processed, exit_status, uncaught>>

\* lines 261-263: KeyboardInterrupt reaches the except clause of the
\* video's try statement, raised by generate or by a Ctrl+C during lines
\* 225-255, when none, one or both of the moves were made; the counters
\* stay and the process exits with status 1
BatchInterrupted ==
    /\ bpc = "generate"
    /\ \/ /\ gpc = "raised"
          /\ pending = "KeyboardInterrupt"
          /\ subs' = Append(subs, [en |-> NotMoved(en_file), ml |-> NotMoved(ml_file)])
       \/ /\ gpc = "returned"
          /\ \E moves \in 0..2, rename_en, rename_ml \in BOOLEAN :
                subs' = Append(subs,
                    [en |-> IF moves >= 1 THEN AfterMove(en_file, rename_en, "English")
                            ELSE NotMoved(en_file),
                     ml |-> IF moves = 2 THEN AfterMove(ml_file, rename_ml, "Malayalam")
                            ELSE NotMoved(ml_file)])
    /\ exit_status' = 1
    /\ bpc' = "interrupted"
    /\ LeaveGenerate
    /\ UNCHANGED <<listing, videos, video_idx, attempted, files_processed, files_failed,
                   uncaught>>

\* an exception that no except clause of run_batch_processing catches ends
\* the process.  Ctrl+C outside the video's try statement (during the
\* setup, between two videos, after the loop) is one.  When generate has
\* raised, it is SystemExit or GeneratorExit raised by generate, or a
\* Ctrl+C in an except clause (lines 259-260, 262, 265-266, before the
\* counter is incremented or sys.exit is called), in the finally clause
\* (line 268) or in the exit of the with statement (line 203), which
\* replaces whatever was leaving.  When generate has returned, it is a
\* second Ctrl+C after one during lines 225-255 reached the except clause.
BatchRaises ==
    /\ \/ /\ bpc \in {"config", "scan", "dirs", "init", "loop"}
          /\ uncaught' = "KeyboardInterrupt"
          /\ UNCHANGED subs
          /\ UNCHANGED <<format_vars, generate_vars>>
       \/ /\ bpc = "generate"
          /\ gpc = "raised"
          /\ uncaught' \in {"KeyboardInterrupt"} \cup ({pending} \cap {"SystemExit", "GeneratorExit"})
          /\ subs' = Append(subs, [en |-> NotMoved(en_file), ml |-> NotMoved(ml_file)])
          /\ LeaveGenerate
       \/ /\ bpc = "generate"
          /\ gpc = "returned"
          /\ uncaught' = "KeyboardInterrupt"
          /\ \E moves \in 0..2, rename_en, rename_ml \in BOOLEAN :
                subs' = Append(subs,
                    [en |-> IF moves >= 1 THEN AfterMove(en_file, rename_en, "English")
                            ELSE NotMoved(en_file),
                     ml |-> IF moves = 2 THEN AfterMove(ml_file, rename_ml, "Malayalam")
                            ELSE NotMoved(ml_file)])
          /\ LeaveGenerate
    /\ bpc' = "raised"
    /\ UNCHANGED <<listing, videos, video_idx, attempted, files_processed, files_failed,
                   exit_status>>

\* lines 270-279: the loop is over; status 1 when a video failed, 0 otherwise
BatchFinished ==
    /\ bpc = "loop"
    /\ video_idx > Len(videos)
    /\ exit_status' = IF files_failed > 0 THEN 1 ELSE 0
    /\ bpc' = "finished"
    /\ UNCHANGED <<listing, videos, video_idx, attempted, files_processed, files_failed,
                   subs, uncaught>>
    /\ UNCHANGED <<format_vars, generate_vars>>

NextBatch ==
    \/ LoadConfig
    \/ FindVideos
    \/ EnsureOutputDirs
    \/ InitComponents
    \/ StartVideo
    \/ EnsureOutputDir
    \/ EnsureOutputDirFails
    \/ ExtractAudio
    \/ ExtractFails
    \/ AudioDisappears
    \/ Transcribe
    \/ TranscribeFails
    \/ SplitNext
    \/ SplitRaises
    \/ OpenOutput
    \/ OpenFails
    \/ WriteCue
    \/ WriteFails
    \/ CloseOutput
    \/ CloseFails
    \/ EnglishFormatted
    \/ EnglishFails
    \/ TranslateSegment
    \/ TranslateRaises
    \/ TranslationDone
    \/ MalayalamFormatted
    \/ MalayalamFails
    \/ Interrupt
    \/ Cleanup
    \/ LeaveFinally
    \/ MoveSubtitles
    \/ VideoFailed
    \/ BatchInterrupted
    \/ BatchRaises
    \/ BatchFinished

SpecBatch == InitBatch /\ [][NextBatch]_vars

\* the .mp4 files found in the directory: the entries of the listing that
\* are regular files whose size can be read and whose name ends in a dot
\* and the letters m, p, 4, written in lower or upper case
Mp4Found ==
    {listing[j] : j \in
        {i \in 1..Len(listing) :
            LET name == listing[i].filename
                n == Len(name)
            IN  /\ n >= 4
                /\ name[n - 3] = "."
                /\ name[n - 2] \in {"m", "M"}
                /\ name[n - 1] \in {"p", "P"}
                /\ name[n] = "4"
                /\ listing[i].isfile
                /\ ~listing[i].oserror}}

\* generate raised SyncSubError or another Exception for the video
VideoRaised == bpc = "generate" /\ gpc = "raised" /\ pending \notin BaseOnly

\* C29: once the loop of run_batch_processing is reached, batch processing
\* attempts every .mp4 file found exactly once, in ascending order of file
\* size; a SyncSubError or an unexpected exception (an Exception that is no
\* SyncSubError) on one video never prevents the later videos from being
\* attempted: the video counts as failed and the loop goes on to the next
\* one, unless Ctrl+C ends the run; and when the loop ends
\* files_processed + files_failed = total_files and the process exits
\* with status 1 if and only if files_failed > 0.
C29_BatchAttemptsAll ==
    /\ [](/\ (videos # <<>> \/ bpc \in {"dirs", "init", "loop", "generate", "finished", "no_videos"}) =>
                /\ \A e \in Mp4Found : Cardinality({i \in 1..Len(videos) : videos[i] = e}) = 1
                /\ \A i \in 1..Len(videos) : videos[i] \in Mp4Found
                /\ \A i, j \in 1..Len(videos) : i < j => videos[i].size <= videos[j].size
          /\ attempted = SubSeq(videos, 1, Len(attempted))
          /\ bpc = "loop" =>
                /\ Len(attempted) = video_idx - 1
                /\ files_processed + files_failed = Len(attempted)
          /\ bpc = "generate" => Len(attempted) = video_idx
          /\ bpc \in {"config", "scan", "dirs", "init", "loop", "generate"} =>
                exit_status = "none"
          /\ bpc \in {"finished", "no_videos"} =>
                /\ attempted = videos
                /\ files_processed + files_failed = Len(videos)
                /\ exit_status = 1 <=> files_failed > 0)
    /\ [][(VideoRaised /\ bpc' # "generate") =>
             \/ /\ bpc' = "loop"
                /\ video_idx' = video_idx + 1
                /\ files_failed' = files_failed + 1
             \/ uncaught' = "KeyboardInterrupt"]_vars
    /\ [][(bpc = "loop" /\ bpc' # "loop" /\ video_idx <= Len(videos)) =>
             \/ /\ bpc' = "generate"
                /\ attempted' = Append(attempted, videos[video_idx])
             \/ uncaught' = "KeyboardInterrupt"]_vars

\* a directory whose larger video is listed first, before a directory
\* named like a video: the smaller video was attempted first and failed
\* after its English file was written, the larger one was still processed,
\* and the batch ended with status 1
C29_Witness ==
    /\ bpc = "finished"
    /\ Len(listing) = 3
    /\ listing[1] \in Mp4Found /\ listing[2] \in Mp4Found
    /\ listing[1].size > listing[2].size
    /\ ~listing[3].isfile
    /\ Len(attempted) = 2
    /\ attempted[1] = listing[2]
    /\ attempted[1].filename[Len(attempted[1].filename) - 2] = "M"
    /\ subs[1].en = "base"
    /\ subs[2].en = "English"
    /\ files_processed = 1
    /\ files_failed = 1
    /\ exit_status = 1

\* C30: after a batch run every subtitle file that was generated for a
\* video is in its language subfolder (Subs/English for .en files,
\* Subs/Malayalam for .ml files) and none is left behind in the base Subs
\* directory, also for a video whose generation failed after its English
\* file had been written (a file whose os.rename failed is not counted).
C30_NoneLeftInBase ==
    bpc = "finished" =>
        \A k \in 1..Len(subs) :
            /\ subs[k].en \in {"none", "English", "unmoved"}
            /\ subs[k].ml \in {"none", "Malayalam", "unmoved"}

====
